---- MODULE Spec2Model ----
(***************************************************************************)
(* A model of the iBot v2 normalisation-and-load pipeline.                 *)
(*                                                                         *)
(*  - the BigQuery loader (bigquery_loader.py): ensure_dataset_exists,     *)
(*    ensure_table_exists, delete_brand_data, header_row_exists,           *)
(*    prepare_rows, streaming_insert and upload, run by concurrent         *)
(*    callers against one shared dataset and table;                        *)
(*  - the column mapper (column_mapper.py): one mapping pass of            *)
(*    ColumnMapper._calculate_mapping over a source header row.            *)
(*                                                                         *)
(* Every warehouse call is one atomic step of a caller.  The warehouse is  *)
(* not part of the repository: it is modelled as one shared object that    *)
(* stores what it is asked to store, and that may answer any call with     *)
(* "not found" although the table exists (metadata propagation lag, which  *)
(* the loader's retry loops are written for) or with an unrelated error.   *)
(* env is the set of anomalies the warehouse of a run may show; with env   *)
(* empty every answer reflects the current state of dataset and table.     *)
(***************************************************************************)
EXTENDS Integers, Sequences, FiniteSets, Bags, TLC

VARIABLES
    \* ---- warehouse
    dsExists,       \* the dataset exists
    tblExists,      \* the destination table exists
    tblSchema,      \* its schema: a sequence of fields
    tblRows,        \* its rows: a bag of prepared rows
    \* ---- callers (functions over Callers)
    pc,             \* position of each caller
    op,             \* the operation the caller runs
    file,           \* parsed_file argument
    brand,          \* brand_code argument
    attempt,        \* loop variable `attempt` of the retry loop being run
    handle,         \* local `table`: schema of the Table object last fetched
    delReturn,      \* which return of delete_brand_data was taken
    rowsToInsert,   \* local rows_to_insert / rows
    off,            \* loop variable `i` of streaming_insert
    totalInserted,  \* local total_inserted
    errors,         \* local errors
    result,         \* what the operation gave back to its caller
    \* ---- environment
    env,            \* the anomalies the warehouse of this run may show
    runCategory,    \* the category whose table the callers of this run load
    offered,        \* the (parsed file, brand) pairs waiting to be uploaded
    tblExists0,     \* history: whether the table existed before any call
    tblRows0,       \* history: the rows of the table before any upload
    runs,           \* history: brand and parsed file of each upload begun
    \* ---- column mapper (one mapping pass)
    mpc, srcHeaders, outHeaders, rules, working_map, mappings,
    srcRows,        \* source_rows handed to map_file: lists of cells
    outRows,        \* output_rows built so far: dicts keyed by output header
    parsed,         \* the ParsedFile parse_file returns
    dynamic,        \* local dynamic_headers of map_file
    standard_headers, \* self.standard_headers of the mapper
    column_aliases, \* argument of create_mapper_for_category: header -> aliases
    \* ---- parse_number (one call)
    npc,            \* position of the call
    numArg,         \* its argument `value`: None or a text
    number,         \* what it gave back
    \* ---- parse_file up to the mapping (one call)
    rpc,          \* position of the call
    fmt,            \* what the file name and content make of the file
    all_rows,       \* the rows of the file, header and leading rows included
    cfg_header_row, \* category.header_row
    cfg_data_start_row, \* category.data_start_row
    raw_rows,       \* local raw_rows
    skipped,        \* local skipped
    file_errors,    \* errors of a ParsedFile returned before the mapping
    \* ---- process_file and batch_process_category (one run)
    ppc,            \* position of the run
    blob_path,      \* argument blob_path of process_file
    file_brand,     \* local brand_code
    moves,          \* the moves requested of the bucket, in order
    run_result,     \* the dict the run returned
    bigquery_enabled, \* settings.BIGQUERY_ENABLED
    legacy_detection, \* LEGACY_BRAND_DETECTION
    blob_paths,     \* local blob_paths of batch_process_category
    blob_i,         \* number of listed files the loop is done with
    all_headers,    \* local all_headers
    batch_rows,     \* local all_rows of batch_process_category
    processed_files, \* local processed_files
    failed_files,   \* local failed_files
    deleted_all,    \* whether delete_all_data was called
    batch_loaded,   \* the arguments batch_upload was called with
    parse_log       \* history: what became of each listed file

lvars == <<dsExists, tblExists, tblSchema, tblRows, pc, op, file, brand, attempt,
           handle, delReturn, rowsToInsert, off, totalInserted, errors, result,
           env, runCategory, offered, tblExists0, tblRows0, runs>>
mvars == <<mpc, srcHeaders, outHeaders, rules, working_map, mappings, srcRows,
           outRows, parsed, dynamic, standard_headers, column_aliases>>
nvars == <<npc, numArg, number>>
rvars == <<rpc, fmt, all_rows, cfg_header_row, cfg_data_start_row, raw_rows,
           skipped, file_errors>>
fvars == <<ppc, blob_path, file_brand, moves, run_result, bigquery_enabled,
           legacy_detection, blob_paths, blob_i, all_headers, batch_rows,
           processed_files, failed_files, deleted_all, batch_loaded, parse_log>>
vars == <<lvars, mvars, nvars, rvars, fvars>>
\* What no step of a caller changes.
setting == <<env, runCategory, offered, tblExists0, tblRows0>>

-----------------------------------------------------------------------------
(* Bounds of the model.                                                    *)

MaxCols == 2        \* most data columns of a parsed file / initial table
MaxRows == 3        \* most data rows of a parsed file
BatchSize == 2      \* settings.BATCH_SIZE of the run (an environment setting)
MaxRuns == 2        \* most uploads a caller runs one after the other
MaxEnsureCols == 3  \* most data columns asked of ensure_table_exists on its own

(* Program constants.                                                      *)

EnsureMaxRetries == 5
InsertMaxRetries == 5
DeleteMaxRetries == 5

Callers == {"c1", "c2"}
Brands == {"GS", "XY"}
HeaderMarker == "_header_"
BrandCol == <<"_brand_code">>

Min(a, b) == IF a < b THEN a ELSE b

-----------------------------------------------------------------------------
(* Schema.                                                                 *)

Letters == <<"A", "B", "C", "D", "E", "F", "G", "H", "I", "J", "K", "L", "M",
             "N", "O", "P", "Q", "R", "S", "T", "U", "V", "W", "X", "Y", "Z">>

RECURSIVE get_column_name(_)
get_column_name(index) ==
    LET letter == Letters[(index % 26) + 1]
        next == (index \div 26) - 1
    IN  IF next < 0 THEN <<letter>> ELSE get_column_name(next) \o <<letter>>

SchemaField(name, mode) == [name |-> name, field_type |-> "STRING", mode |-> mode]

get_schema(num_columns) ==
    <<SchemaField(BrandCol, "REQUIRED")>> \o
    [i \in 1..num_columns |-> SchemaField(get_column_name(i - 1), "NULLABLE")]

FieldNames(schema) == {schema[i].name : i \in 1..Len(schema)}

\* Faulty variant: the missing columns are never added.
NewFields_None(existing, schema) == <<>>

\* new_fields = [f for f in schema if f.name not in existing_fields]
NewFields(existing, schema) ==
    LET Missing(f) == f.name \notin FieldNames(existing)
    IN  SelectSeq(schema, Missing)

\* Faulty variant: the update writes only the new columns.
UpdatedSchema_Replaces(existing, schema) == NewFields(existing, schema)

\* updated_schema = list(table.schema) + new_fields
UpdatedSchema(existing, schema) == existing \o NewFields(existing, schema)

-----------------------------------------------------------------------------
(* Categories and parsed files.                                            *)

\* Whether sequence sub occurs in sequence s (Python's `sub in s` on strings).
IsSubstring(sub, s) ==
    \E k \in 0..(Len(s) - Len(sub)) : SubSeq(s, k + 1, k + Len(sub)) = sub

BA_Produk == <<"B", "A", " ", "P", "r", "o", "d", "u", "k">>
Informasi == <<"I", "n", "f", "o", "r", "m", "a", "s", "i">>
Export_SKU == <<"E", "x", "p", "o", "r", "t", " ", "S", "K", "U">>
Demografis == <<"D", "e", "m", "o", "g", "r", "a", "f", "i", "s">>
Proyeksi == <<"P", "r", "o", "y", "e", "k", "s", "i">>
BA_Dash == <<"B", "A", " ", "D", "a", "s", "h">>

snapshot_categories == <<BA_Produk, Informasi, Export_SKU, Demografis, Proyeksi>>


\* Faulty variant: every category is taken for a snapshot.
is_snapshot_Always(category) == TRUE

\* is_snapshot = any(cat in category.name for cat in snapshot_categories)
is_snapshot(category) ==
    \E k \in 1..Len(snapshot_categories) :
        IsSubstring(snapshot_categories[k], category.name)

NoCategory == [name |-> <<>>, bigquery_table |-> "none"]

\* The categories of a run: a snapshot one and an append one ("BA Produk SHO",
\* "BA Dash SHO").  All callers of a run load into the table of one category.
Categories ==
    { [name |-> BA_Produk \o <<" ", "S", "H", "O">>, bigquery_table |-> "t"],
      [name |-> BA_Dash \o <<" ", "S", "H", "O">>, bigquery_table |-> "t"] }

HeaderNames == <<"sku", "qty", "name", "price", "stock">>
SourceNames == <<"SKU", "Qty", "Name", "Price", "Stock">>
CellValues == {"v1", "v2"}

\* ParsedFile (parser.py): headers, rows (dicts keyed by header), category,
\* source_headers.
ParsedFile(category, ncols, vals) ==
    [ category |-> category,
      headers |-> SubSeq(HeaderNames, 1, ncols),
      source_headers |-> SubSeq(SourceNames, 1, ncols),
      rows |-> [k \in 1..Len(vals) |->
                  [h \in {HeaderNames[i] : i \in 1..ncols} |-> vals[k]]] ]

\* ParsedFile.is_valid
\* Faulty variant: a file with rows counts as valid whatever its category.
is_valid_RowsOnly(parsed_file) == Len(parsed_file.rows) > 0

is_valid(parsed_file) ==
    parsed_file.category # NoCategory /\ Len(parsed_file.rows) > 0

\* Row sets of a parsed file: none, one row, MaxRows rows.
RowSets ==
    { <<>>, <<"v1">>, [k \in 1..MaxRows |-> IF k = 1 THEN "v2" ELSE "v1"] }

\* The parsed files a caller may hand to upload for category cat.
ParsedFiles(cat) ==
    { ParsedFile(c, n, vals) :
        c \in {cat, NoCategory}, n \in 1..MaxCols, vals \in RowSets }

-----------------------------------------------------------------------------
(* prepare_rows.                                                           *)

RowGet(row, header) == IF header \in DOMAIN row THEN row[header] ELSE ""

Columns(n) == {BrandCol} \cup {get_column_name(i) : i \in 0..(n - 1)}

ColumnIndex(col, n) == CHOOSE i \in 0..(n - 1) : get_column_name(i) = col

\* header_row: _brand_code = "_header_", column i = str(parsed_file.headers[i])
header_row(parsed_file) ==
    LET n == Len(parsed_file.headers)
    IN  [col \in Columns(n) |->
            IF col = BrandCol THEN HeaderMarker
            ELSE parsed_file.headers[ColumnIndex(col, n) + 1]]

\* one prepared data row: _brand_code = brand_code, column i = row.get(header, "")
prepared_row(parsed_file, brand_code, row) ==
    LET n == Len(parsed_file.headers)
    IN  [col \in Columns(n) |->
            IF col = BrandCol THEN brand_code
            ELSE RowGet(row, parsed_file.headers[ColumnIndex(col, n) + 1])]

data_rows(parsed_file, brand_code) ==
    [k \in 1..Len(parsed_file.rows) |->
        prepared_row(parsed_file, brand_code, parsed_file.rows[k])]

SeqToBag(s) ==
    LET elems == {s[i] : i \in 1..Len(s)}
    IN  [e \in elems |-> Cardinality({i \in 1..Len(s) : s[i] = e})]

\* The rows of bag b whose brand-code field is code / is not code.
RowsOf(b, code) ==
    LET keep == {r \in DOMAIN b : r[BrandCol] = code}
    IN  [r \in keep |-> b[r]]

\* Faulty variant: the DELETE removes nothing.
RowsNotOf_KeepsAll(b, code) == b

\* Faulty variant: the DELETE takes the sentinel header row as well.
RowsNotOf_AlsoHeader(b, code) ==
    LET keep == {r \in DOMAIN b : r[BrandCol] \notin {code, HeaderMarker}}
    IN  [r \in keep |-> b[r]]

\* Faulty variant: the DELETE is not restricted to the brand.
RowsNotOf_EveryBrand(b, code) == RowsOf(b, HeaderMarker)

RowsNotOf(b, code) ==
    LET keep == {r \in DOMAIN b : r[BrandCol] # code}
    IN  [r \in keep |-> b[r]]

-----------------------------------------------------------------------------
(* Results and the frame of a caller's step.                               *)

NoInfo == [tag |-> "none", error |-> "", rows_inserted |-> 0, rows_total |-> 0,
           errors |-> <<>>]
NoResult == [kind |-> "none", success |-> FALSE, info |-> NoInfo,
             table |-> <<>>, exc |-> ""]

\* return value of the operation
Returned(success, info, table) ==
    [kind |-> "return", success |-> success, info |-> info, table |-> table,
     exc |-> ""]
\* exception that left the operation
Raised(exc) ==
    [kind |-> "raise", success |-> FALSE, info |-> NoInfo, table |-> <<>>,
     exc |-> exc]

\* What the warehouse of this run may do: answer "not found" for an existing
\* dataset or table, fail with an unrelated error, refuse a DML statement for
\* its concurrency limit, reject rows of an insert.
Lag == "lag" \in env
Fault == "error" \in env
RateLimit == "rate_limit" \in env
Reject == "reject" \in env

Goto(c, label) == pc' = [pc EXCEPT ![c] = label]

Finish(c, res) ==
    /\ pc' = [pc EXCEPT ![c] = "done"]
    /\ result' = [result EXCEPT ![c] = res]

\* Faulty variant: upload has no handler, the exception leaves it.
UploadExcept_Propagates(c, exc) == Finish(c, Raised(exc))

\* upload's handler: except Exception as e -> return False, {"error": str(e)}
UploadExcept(c, exc) ==
    Finish(c, Returned(FALSE, [NoInfo EXCEPT !.tag = "failed", !.error = exc],
                       <<>>))

\* An exception raised at the caller's current call: upload catches it,
\* ensure_table_exists called on its own lets it out.
Raise(c, exc) ==
    IF op[c] = "upload" THEN UploadExcept(c, exc) ELSE Finish(c, Raised(exc))

Required(c) == get_schema(Len(file[c].headers))

-----------------------------------------------------------------------------
(* ensure_dataset_exists.                                                  *)

\* self.client.get_dataset(dataset_ref)
GetDataset(c) ==
    /\ pc[c] = "ds_get"
    /\ \/ /\ dsExists
          /\ Goto(c, "et_lookup")
          /\ UNCHANGED result
       \/ /\ ~dsExists \/ Lag        \* NotFound
          /\ Goto(c, "ds_create")
          /\ UNCHANGED result
       \/ /\ Fault
          /\ Raise(c, "Error")
    /\ UNCHANGED <<dsExists, tblExists, tblSchema, tblRows, op, file, brand,
                   attempt, handle, delReturn, rowsToInsert, off,
                   totalInserted, errors, setting, runs, mvars, nvars, rvars, fvars>>

\* self.client.create_dataset(dataset): a Conflict is not handled here
CreateDataset(c) ==
    /\ pc[c] = "ds_create"
    /\ \/ /\ ~dsExists
          /\ dsExists' = TRUE
          /\ Goto(c, "et_lookup")
          /\ UNCHANGED result
       \/ /\ dsExists
          /\ Raise(c, "Conflict")
          /\ UNCHANGED dsExists
       \/ /\ Fault
          /\ Raise(c, "Error")
          /\ UNCHANGED dsExists
    /\ UNCHANGED <<tblExists, tblSchema, tblRows, op, file, brand, attempt,
                   handle, delReturn, rowsToInsert, off, totalInserted, errors,
                   setting, runs, mvars, nvars, rvars, fvars>>

-----------------------------------------------------------------------------
(* ensure_table_exists(table_name, schema, max_retries = 5).               *)

\* ensure_table_exists returns `table`: on its own that ends the operation,
\* inside upload the delete (snapshot) or the header check comes next.
EnsureReturn(c, table) ==
    IF op[c] = "upload"
    THEN /\ Goto(c, IF is_snapshot(file[c].category) THEN "del" ELSE "hdr")
         /\ attempt' = [attempt EXCEPT ![c] = 0]
         /\ handle' = [handle EXCEPT ![c] = <<>>]
         /\ UNCHANGED result
    ELSE /\ Finish(c, Returned(TRUE, NoInfo, table))
         /\ handle' = [handle EXCEPT ![c] = <<>>]
         /\ UNCHANGED attempt

EnsureRaise(c, exc) ==
    /\ Raise(c, exc)
    /\ handle' = [handle EXCEPT ![c] = <<>>]
    /\ UNCHANGED attempt

\* table = self.client.get_table(table_id), then the schema comparison
EnsureLookup(c) ==
    /\ pc[c] = "et_lookup"
    /\ \/ /\ tblExists
          /\ NewFields(tblSchema, Required(c)) = <<>>
          /\ EnsureReturn(c, tblSchema)
       \/ /\ tblExists
          /\ NewFields(tblSchema, Required(c)) # <<>>
          /\ handle' = [handle EXCEPT ![c] = tblSchema]
          /\ Goto(c, "et_update")
          /\ UNCHANGED <<attempt, result>>
       \/ /\ ~tblExists \/ Lag       \* NotFound
          /\ Goto(c, "et_create")
          /\ UNCHANGED <<attempt, handle, result>>
       \/ /\ Fault
          /\ EnsureRaise(c, "Error")
    /\ UNCHANGED <<dsExists, tblExists, tblSchema, tblRows, op, file, brand,
                   delReturn, rowsToInsert, off, totalInserted, errors,
                   setting, runs, mvars, nvars, rvars, fvars>>

\* table.schema = updated_schema; self.client.update_table(table, ["schema"])
\* The handle came from get_table and carries the table's etag, which the
\* client sends as the update's If-Match precondition: an update through a
\* handle read before another caller's update is refused (PreconditionFailed,
\* which ensure_table_exists does not catch).  The schema is the only table
\* metadata these callers change, so the handle is stale exactly when the
\* schema it read is no longer the table's.
EnsureUpdate(c) ==
    /\ pc[c] = "et_update"
    /\ \/ /\ tblExists /\ handle[c] = tblSchema
          /\ tblSchema' = UpdatedSchema(handle[c], Required(c))
          /\ EnsureReturn(c, UpdatedSchema(handle[c], Required(c)))
       \/ /\ tblExists /\ handle[c] # tblSchema
          /\ EnsureRaise(c, "PreconditionFailed")
          /\ UNCHANGED tblSchema
       \/ /\ ~tblExists \/ Lag             \* except NotFound: create the table
          /\ Goto(c, "et_create")
          /\ handle' = [handle EXCEPT ![c] = <<>>]
          /\ UNCHANGED <<tblSchema, attempt, result>>
       \/ /\ Fault
          /\ EnsureRaise(c, "Error")
          /\ UNCHANGED tblSchema
    /\ UNCHANGED <<dsExists, tblExists, tblRows, op, file, brand, delReturn,
                   rowsToInsert, off, totalInserted, errors, setting, runs,
                   mvars, nvars, rvars, fvars>>

\* Faulty variant: the Conflict of the last attempt leaves the call.
EnsureCreate_LastConflictRaises(c) ==
    /\ pc[c] = "et_create"
    /\ \/ /\ ~tblExists
          /\ tblExists' = TRUE
          /\ tblSchema' = Required(c)
          /\ EnsureReturn(c, Required(c))
       \/ /\ tblExists /\ attempt[c] + 1 < EnsureMaxRetries
          /\ attempt' = [attempt EXCEPT ![c] = @ + 1]
          /\ Goto(c, "et_lookup")
          /\ UNCHANGED <<tblExists, tblSchema, handle, result>>
       \/ /\ tblExists /\ attempt[c] + 1 >= EnsureMaxRetries
          /\ EnsureRaise(c, "Conflict")
          /\ UNCHANGED <<tblExists, tblSchema>>
       \/ /\ Fault
          /\ EnsureRaise(c, "Error")
          /\ UNCHANGED <<tblExists, tblSchema>>
    /\ UNCHANGED <<dsExists, tblRows, op, file, brand, delReturn, rowsToInsert,
                   off, totalInserted, errors, setting, runs, mvars, nvars, rvars, fvars>>

\* table = self.client.create_table(table); except Conflict: back off, continue
EnsureCreate(c) ==
    /\ pc[c] = "et_create"
    /\ \/ /\ ~tblExists
          /\ tblExists' = TRUE
          /\ tblSchema' = Required(c)
          /\ EnsureReturn(c, Required(c))
       \/ /\ tblExists                     \* Conflict
          /\ attempt' = [attempt EXCEPT ![c] = @ + 1]
          /\ Goto(c, IF attempt[c] + 1 < EnsureMaxRetries
                     THEN "et_lookup" ELSE "et_final")
          /\ UNCHANGED <<tblExists, tblSchema, handle, result>>
       \/ /\ Fault
          /\ EnsureRaise(c, "Error")
          /\ UNCHANGED <<tblExists, tblSchema>>
    /\ UNCHANGED <<dsExists, tblRows, op, file, brand, delReturn, rowsToInsert,
                   off, totalInserted, errors, setting, runs, mvars, nvars, rvars, fvars>>

\* All retries exhausted: return self.client.get_table(table_id)
EnsureFinal(c) ==
    /\ pc[c] = "et_final"
    /\ \/ /\ tblExists
          /\ EnsureReturn(c, tblSchema)
       \/ /\ ~tblExists \/ Lag
          /\ EnsureRaise(c, "NotFound")
       \/ /\ Fault
          /\ EnsureRaise(c, "Error")
    /\ UNCHANGED <<dsExists, tblExists, tblSchema, tblRows, op, file, brand,
                   delReturn, rowsToInsert, off, totalInserted, errors,
                   setting, runs, mvars, nvars, rvars, fvars>>

-----------------------------------------------------------------------------
(* delete_brand_data(brand_code, table_name, max_retries = 5).             *)

\* Faulty variant: a delete that did not complete ends the upload.
DeleteReturn_FailureRaises(c, via, n) ==
    /\ delReturn' = [delReturn EXCEPT ![c] = [via |-> via, rows |-> n]]
    /\ IF via = "deleted"
       THEN attempt' = [attempt EXCEPT ![c] = 0] /\ Goto(c, "hdr")
       ELSE UNCHANGED attempt /\ Goto(c, "done")

DeleteReturn(c, via, n) ==
    /\ delReturn' = [delReturn EXCEPT ![c] = [via |-> via, rows |-> n]]
    /\ attempt' = [attempt EXCEPT ![c] = 0]
    /\ Goto(c, "hdr")

\* query_job = self.client.query(DELETE ... WHERE _brand_code = @brand_code)
DeleteQuery(c) ==
    /\ pc[c] = "del"
    /\ \/ /\ tblExists                     \* return rows_deleted
          /\ tblRows' = RowsNotOf(tblRows, brand[c])
          /\ DeleteReturn(c, "deleted", BagCardinality(RowsOf(tblRows, brand[c])))
       \/ /\ ~tblExists \/ Lag             \* except NotFound: return 0
          /\ DeleteReturn(c, "not_found", 0)
          /\ UNCHANGED tblRows
       \/ /\ RateLimit                     \* BadRequest, "Too many DML statements"
          /\ attempt[c] + 1 < DeleteMaxRetries
          /\ attempt' = [attempt EXCEPT ![c] = @ + 1]
          /\ UNCHANGED <<pc, delReturn, tblRows>>
       \/ /\ RateLimit                     \* ... on the last attempt: return 0
          /\ attempt[c] + 1 >= DeleteMaxRetries
          /\ DeleteReturn(c, "exhausted", 0)
          /\ UNCHANGED tblRows
       \/ /\ Fault                         \* other BadRequest / Exception: return 0
          /\ DeleteReturn(c, "error", 0)
          /\ UNCHANGED tblRows
    /\ UNCHANGED <<dsExists, tblExists, tblSchema, op, file, brand, handle,
                   rowsToInsert, off, totalInserted, errors, result, setting,
                   runs, mvars, nvars, rvars, fvars>>

-----------------------------------------------------------------------------
(* header_row_exists and the rows handed to streaming_insert.              *)

\* Faulty variant: one header row more than the existence check calls for.
RowsToInsert_HeaderAgain(c, exists) ==
    (IF exists THEN <<header_row(file[c])>>
     ELSE <<header_row(file[c]), header_row(file[c])>>) \o
    data_rows(file[c], brand[c])

\* rows_to_insert: the header row unless one exists, then the data rows
RowsToInsert(c, exists) ==
    (IF exists THEN <<>> ELSE <<header_row(file[c])>>) \o
    data_rows(file[c], brand[c])

\* SELECT COUNT(*) ... WHERE _brand_code = '_header_'; except Exception: False
HeaderRowExists(c) ==
    /\ pc[c] = "hdr"
    /\ \/ /\ tblExists
          /\ rowsToInsert' = [rowsToInsert EXCEPT ![c] =
                 RowsToInsert(c, BagCardinality(RowsOf(tblRows, HeaderMarker)) > 0)]
       \/ /\ ~tblExists \/ Lag \/ Fault
          /\ rowsToInsert' = [rowsToInsert EXCEPT ![c] = RowsToInsert(c, FALSE)]
    /\ Goto(c, "si_get")
    /\ UNCHANGED <<dsExists, tblExists, tblSchema, tblRows, op, file, brand,
                   attempt, handle, delReturn, off, totalInserted, errors,
                   result, setting, runs, mvars, nvars, rvars, fvars>>

-----------------------------------------------------------------------------
(* streaming_insert(table_name, rows, batch_size, max_retries = 5).        *)

\* table = self.client.get_table(table_id), retried on NotFound
InsertGetTable(c) ==
    /\ pc[c] = "si_get"
    /\ \/ /\ tblExists
          /\ handle' = [handle EXCEPT ![c] = tblSchema]
          /\ attempt' = [attempt EXCEPT ![c] = 0]
          /\ Goto(c, "ins")
          /\ UNCHANGED result
       \/ /\ ~tblExists \/ Lag             \* NotFound, not the last attempt
          /\ attempt[c] < InsertMaxRetries - 1
          /\ attempt' = [attempt EXCEPT ![c] = @ + 1]
          /\ UNCHANGED <<pc, handle, result>>
       \/ /\ ~tblExists \/ Lag             \* NotFound, last attempt: raise
          /\ attempt[c] >= InsertMaxRetries - 1
          /\ Raise(c, "NotFound")
          /\ UNCHANGED <<attempt, handle>>
       \/ /\ Fault
          /\ Raise(c, "Error")
          /\ UNCHANGED <<attempt, handle>>
    /\ UNCHANGED <<dsExists, tblExists, tblSchema, tblRows, op, file, brand,
                   delReturn, rowsToInsert, off, totalInserted, errors,
                   setting, runs, mvars, nvars, rvars, fvars>>

\* batch = rows[i:i + batch_size]
Batch(c) ==
    SubSeq(rowsToInsert[c], off[c] + 1, Min(off[c] + BatchSize, Len(rowsToInsert[c])))

\* The insert_errors the warehouse may return for a batch of n rows: every row
\* refused because the table is not found, or its last row refused as invalid.
NotFoundErrors(n) == [k \in 1..n |-> [index |-> k - 1, errors |-> "not found"]]
InvalidErrors(n) == { <<[index |-> n - 1, errors |-> "invalid"]>> }

\* The warehouse takes a row only if the table has all of its columns.
Fits(batch) == \A k \in 1..Len(batch) : DOMAIN batch[k] \subseteq FieldNames(tblSchema)

\* Faulty variant: every row handed over is reported as inserted.
UploadReturn_CountsAll(c, inserted, errs) ==
    Finish(c, Returned(errs = <<>>,
                       [tag |-> "loaded", error |-> "",
                        rows_inserted |-> Len(rowsToInsert[c]),
                        rows_total |-> Len(rowsToInsert[c]), errors |-> errs],
                       <<>>))

\* upload's return after streaming_insert
UploadReturn(c, inserted, errs) ==
    Finish(c, Returned(errs = <<>>,
                       [tag |-> "loaded", error |-> "", rows_inserted |-> inserted,
                        rows_total |-> Len(rowsToInsert[c]), errors |-> errs],
                       <<>>))

\* Faulty variant: a batch with insert errors ends streaming_insert.
BatchDone_AbortsOnRejection(c, inserted, errs) ==
    /\ totalInserted' = [totalInserted EXCEPT ![c] = inserted]
    /\ errors' = [errors EXCEPT ![c] = errs]
    /\ attempt' = [attempt EXCEPT ![c] = 0]
    /\ off' = [off EXCEPT ![c] = @ + BatchSize]
    /\ IF off[c] + BatchSize < Len(rowsToInsert[c]) /\ errs = errors[c]
       THEN Goto(c, "ins") /\ UNCHANGED result
       ELSE UploadReturn(c, inserted, errs)

\* batch_inserted = True; break: on to the next batch, or return
BatchDone(c, inserted, errs) ==
    /\ totalInserted' = [totalInserted EXCEPT ![c] = inserted]
    /\ errors' = [errors EXCEPT ![c] = errs]
    /\ attempt' = [attempt EXCEPT ![c] = 0]
    /\ off' = [off EXCEPT ![c] = @ + BatchSize]
    /\ IF off[c] + BatchSize < Len(rowsToInsert[c])
       THEN Goto(c, "ins") /\ UNCHANGED result
       ELSE UploadReturn(c, inserted, errs)

\* insert_errors = self.client.insert_rows_json(table, batch)
InsertRows(c) ==
    /\ pc[c] = "ins"
    /\ \/ /\ tblExists /\ Fits(Batch(c))   \* no insert_errors
          /\ tblRows' = tblRows (+) SeqToBag(Batch(c))
          /\ BatchDone(c, totalInserted[c] + Len(Batch(c)), errors[c])
       \/ /\ ~tblExists \/ Lag             \* 'not found' errors, retry
          /\ attempt[c] < InsertMaxRetries - 1
          /\ Goto(c, "ins_refresh")
          /\ UNCHANGED <<tblRows, attempt, off, totalInserted, errors, result>>
       \/ /\ ~tblExists \/ Lag             \* 'not found' errors, last attempt
          /\ attempt[c] >= InsertMaxRetries - 1
          /\ BatchDone(c, totalInserted[c],
                       errors[c] \o NotFoundErrors(Len(Batch(c))))
          /\ UNCHANGED tblRows
       \/ /\ Reject \/ (tblExists /\ ~Fits(Batch(c)))   \* row-level errors
          /\ \E e \in InvalidErrors(Len(Batch(c))) :
                BatchDone(c, totalInserted[c], errors[c] \o e)
          /\ UNCHANGED tblRows
       \/ /\ ~tblExists \/ Lag             \* except NotFound, not the last attempt
          /\ attempt[c] < InsertMaxRetries - 1
          /\ Goto(c, "ins_refresh_exc")
          /\ UNCHANGED <<tblRows, attempt, off, totalInserted, errors, result>>
       \/ /\ ~tblExists \/ Lag             \* except NotFound, last attempt: raise
          /\ attempt[c] >= InsertMaxRetries - 1
          /\ Raise(c, "NotFound")
          /\ UNCHANGED <<tblRows, attempt, off, totalInserted, errors>>
       \/ /\ Fault
          /\ Raise(c, "Error")
          /\ UNCHANGED <<tblRows, attempt, off, totalInserted, errors>>
    /\ UNCHANGED <<dsExists, tblExists, tblSchema, op, file, brand, handle,
                   delReturn, rowsToInsert, setting, runs, mvars, nvars, rvars, fvars>>

\* "Refresh table reference" inside the try block (after 'not found' errors):
\* a NotFound here is caught by the except clause of the same try
InsertRefresh(c) ==
    /\ pc[c] = "ins_refresh"
    /\ \/ /\ tblExists                     \* continue
          /\ handle' = [handle EXCEPT ![c] = tblSchema]
          /\ attempt' = [attempt EXCEPT ![c] = @ + 1]
          /\ Goto(c, "ins")
          /\ UNCHANGED result
       \/ /\ ~tblExists \/ Lag             \* NotFound: to the except clause
          /\ Goto(c, "ins_refresh_exc")
          /\ UNCHANGED <<attempt, handle, result>>
       \/ /\ Fault
          /\ Raise(c, "Error")
          /\ UNCHANGED <<attempt, handle>>
    /\ UNCHANGED <<dsExists, tblExists, tblSchema, tblRows, op, file, brand,
                   delReturn, rowsToInsert, off, totalInserted, errors,
                   setting, runs, mvars, nvars, rvars, fvars>>

\* "Refresh table reference" inside the except clause: nothing catches a
\* NotFound raised here before upload does
InsertRefreshExc(c) ==
    /\ pc[c] = "ins_refresh_exc"
    /\ \/ /\ tblExists                     \* next attempt
          /\ handle' = [handle EXCEPT ![c] = tblSchema]
          /\ attempt' = [attempt EXCEPT ![c] = @ + 1]
          /\ Goto(c, "ins")
          /\ UNCHANGED result
       \/ /\ ~tblExists \/ Lag
          /\ Raise(c, "NotFound")
          /\ UNCHANGED <<attempt, handle>>
       \/ /\ Fault
          /\ Raise(c, "Error")
          /\ UNCHANGED <<attempt, handle>>
    /\ UNCHANGED <<dsExists, tblExists, tblSchema, tblRows, op, file, brand,
                   delReturn, rowsToInsert, off, totalInserted, errors,
                   setting, runs, mvars, nvars, rvars, fvars>>

-----------------------------------------------------------------------------
(* upload(parsed_file, brand_code, import_id): its entry.                  *)

Arguments(c, o, parsed_file, brand_code) ==
    /\ op' = [op EXCEPT ![c] = o]
    /\ file' = [file EXCEPT ![c] = parsed_file]
    /\ brand' = [brand EXCEPT ![c] = brand_code]

\* if not parsed_file.is_valid: return False, {"error": "Invalid file - no data"}
BeginUpload(c) ==
    /\ pc[c] = "idle"
    /\ \E o \in offered :
        LET parsed_file == o.file
            brand_code == o.brand
        IN
          /\ Arguments(c, "upload", parsed_file, brand_code)
          /\ runs' = Append(runs, [brand |-> brand_code, file |-> parsed_file,
                                   success |-> FALSE])
          /\ IF is_valid(parsed_file)
             THEN Goto(c, "ds_get") /\ UNCHANGED result
             ELSE Finish(c, Returned(FALSE,
                      [NoInfo EXCEPT !.tag = "invalid",
                                     !.error = "Invalid file - no data"], <<>>))
    /\ UNCHANGED <<dsExists, tblExists, tblSchema, tblRows, attempt, handle,
                   delReturn, rowsToInsert, off, totalInserted, errors,
                   setting, mvars, nvars, rvars, fvars>>

\* ensure_table_exists called on its own, for a schema of n data columns
BeginEnsure(c) ==
    /\ pc[c] = "idle"
    /\ \E n \in 1..MaxEnsureCols :
          Arguments(c, "ensure_table_exists",
                    ParsedFile(runCategory, n, <<"v1">>), "GS")
    /\ Goto(c, "et_lookup")
    /\ UNCHANGED <<dsExists, tblExists, tblSchema, tblRows, attempt, handle,
                   delReturn, rowsToInsert, off, totalInserted, errors, result,
                   setting, runs, mvars, nvars, rvars, fvars>>

-----------------------------------------------------------------------------
(* Initial states.                                                         *)

AllAnomalies == {"lag", "error", "rate_limit", "reject"}

\* Rows a table of n data columns may hold before the run: none; rows of a
\* brand no caller loads; those plus a header row and an old row of "GS".
OldFile(n) == ParsedFile(runCategory, n, <<"v2">>)
OldRow(n, code) == prepared_row(OldFile(n), code, OldFile(n).rows[1])
InitialRows(n) ==
    { EmptyBag,
      SetToBag({OldRow(n, "ZZ")}),
      SetToBag({header_row(OldFile(n)), OldRow(n, "GS"), OldRow(n, "ZZ")}) }

InitCallers ==
    /\ pc = [c \in Callers |-> "idle"]
    /\ op = [c \in Callers |-> "none"]
    /\ file = [c \in Callers |-> ParsedFile(NoCategory, 0, <<>>)]
    /\ brand = [c \in Callers |-> ""]
    /\ attempt = [c \in Callers |-> 0]
    /\ handle = [c \in Callers |-> <<>>]
    /\ delReturn = [c \in Callers |-> [via |-> "none", rows |-> 0]]
    /\ rowsToInsert = [c \in Callers |-> <<>>]
    /\ off = [c \in Callers |-> 0]
    /\ totalInserted = [c \in Callers |-> 0]
    /\ errors = [c \in Callers |-> <<>>]
    /\ result = [c \in Callers |-> NoResult]

InitWarehouse ==
    /\ runCategory \in Categories
    /\ runs = <<>>
    /\ \/ /\ dsExists \in BOOLEAN
          /\ tblExists = FALSE
          /\ tblSchema = <<>>
          /\ tblRows = EmptyBag
       \/ /\ dsExists = TRUE
          /\ tblExists = TRUE
          /\ \E n \in 1..MaxCols :
                /\ tblSchema = get_schema(n)
                /\ tblRows \in InitialRows(n)
    /\ tblExists0 = tblExists
    /\ tblRows0 = tblRows

\* No ParsedFile yet.
NoParsedFile ==
    [headers |-> <<>>, rows |-> <<>>, column_mapped |-> FALSE,
     source_headers |-> <<>>]

\* No call of parse_number.
NumNull == [kind |-> "null", neg |-> FALSE, units |-> 0, scale |-> 0, exc |-> ""]

\* No call of parse_file's reading part.
InitReaderIdle ==
    /\ rpc = "off"
    /\ fmt = "none"
    /\ all_rows = <<>>
    /\ cfg_header_row = 0
    /\ cfg_data_start_row = 1
    /\ raw_rows = <<>>
    /\ skipped = 0
    /\ file_errors = <<>>

NoRun == [kind |-> "none", success |-> FALSE, error |-> ""]
NotLoaded == [called |-> FALSE, rows |-> <<>>, headers |-> <<>>]

\* No file is being processed.
InitFilesIdle ==
    /\ ppc = "off"
    /\ blob_path = <<>>
    /\ file_brand = <<>>
    /\ moves = <<>>
    /\ run_result = NoRun
    /\ bigquery_enabled = TRUE
    /\ legacy_detection = TRUE
    /\ blob_paths = <<>>
    /\ blob_i = 0
    /\ all_headers = <<"None">>
    /\ batch_rows = <<>>
    /\ processed_files = <<>>
    /\ failed_files = <<>>
    /\ deleted_all = FALSE
    /\ batch_loaded = NotLoaded
    /\ parse_log = <<>>

InitNumberIdle ==
    /\ npc = "off"
    /\ numArg = <<>>
    /\ number = NumNull

InitMapperIdle ==
    /\ mpc = "off"
    /\ srcHeaders = <<>>
    /\ outHeaders = <<>>
    /\ rules = <<>>
    /\ working_map = <<>>
    /\ mappings = <<>>
    /\ srcRows = <<>>
    /\ outRows = <<>>
    /\ parsed = NoParsedFile
    /\ dynamic = <<>>
    /\ standard_headers = outHeaders
    /\ column_aliases = << >>

\* Every parsed file of the category, for every brand.
Offers(cat) == [file : ParsedFiles(cat), brand : Brands]

\* Uploads: the warehouse may show every anomaly.
Init ==
    /\ env = AllAnomalies
    /\ InitWarehouse /\ InitCallers /\ InitMapperIdle /\ InitNumberIdle /\ InitReaderIdle /\ InitFilesIdle
    /\ offered = Offers(runCategory)

\* Concurrent provisioning: a consistent warehouse, or one with every anomaly.
InitProvision ==
    /\ env \in {{}, AllAnomalies}
    /\ offered = {}
    /\ InitWarehouse /\ InitCallers /\ InitMapperIdle /\ InitNumberIdle /\ InitReaderIdle /\ InitFilesIdle

-----------------------------------------------------------------------------
(* Specifications of the loader.                                           *)

\* The steps of ensure_table_exists.
EnsureStep(c) ==
    \/ EnsureLookup(c)
    \/ EnsureUpdate(c)
    \/ EnsureCreate(c)
    \/ EnsureFinal(c)

\* The steps of upload after its entry.
UploadStep(c) ==
    \/ GetDataset(c)
    \/ CreateDataset(c)
    \/ EnsureStep(c)
    \/ DeleteQuery(c)
    \/ HeaderRowExists(c)
    \/ InsertGetTable(c)
    \/ InsertRows(c)
    \/ InsertRefresh(c)
    \/ InsertRefreshExc(c)

\* One upload by one caller.
Solo == "c1"

Next ==
    \/ BeginUpload(Solo)
    \/ UploadStep(Solo)

Spec == Init /\ [][Next]_vars

\* The caller takes the result and calls upload again.
Restart(c) ==
    /\ pc[c] = "done"
    /\ Len(runs) < MaxRuns
    /\ pc' = [pc EXCEPT ![c] = "idle"]
    /\ op' = [op EXCEPT ![c] = "none"]
    /\ file' = [file EXCEPT ![c] = ParsedFile(NoCategory, 0, <<>>)]
    /\ brand' = [brand EXCEPT ![c] = ""]
    /\ attempt' = [attempt EXCEPT ![c] = 0]
    /\ handle' = [handle EXCEPT ![c] = <<>>]
    /\ delReturn' = [delReturn EXCEPT ![c] = [via |-> "none", rows |-> 0]]
    /\ rowsToInsert' = [rowsToInsert EXCEPT ![c] = <<>>]
    /\ off' = [off EXCEPT ![c] = 0]
    /\ totalInserted' = [totalInserted EXCEPT ![c] = 0]
    /\ errors' = [errors EXCEPT ![c] = <<>>]
    /\ result' = [result EXCEPT ![c] = NoResult]
    /\ runs' = [runs EXCEPT ![Len(runs)].success = result[c].success]
    /\ UNCHANGED <<dsExists, tblExists, tblSchema, tblRows, setting, mvars, nvars, rvars, fvars>>

\* Uploads one after the other by one caller.
NextRepeat ==
    \/ BeginUpload(Solo)
    \/ UploadStep(Solo)
    \/ Restart(Solo)

\* Repeated uploads are uploads for one brand; the table may hold rows of
\* another.
InitRepeat ==
    /\ env = AllAnomalies
    /\ InitWarehouse /\ InitCallers /\ InitMapperIdle /\ InitNumberIdle /\ InitReaderIdle /\ InitFilesIdle
    /\ offered = {o \in Offers(runCategory) : o.brand = "GS"}

SpecRepeat == InitRepeat /\ [][NextRepeat]_vars

\* Concurrent calls of ensure_table_exists on one table.
NextProvision ==
    \E c \in Callers :
        \/ BeginEnsure(c)
        \/ EnsureStep(c)

SpecProvision == InitProvision /\ [][NextProvision]_vars

\* Concurrent uploads into one table.  Any files, with a warehouse that is
\* consistent or may refuse a DML statement for its concurrency limit; or
\* one-row, one-column files of one brand, with a warehouse whose lookups may lag.
InitConcurrent ==
    /\ InitWarehouse /\ InitCallers /\ InitMapperIdle /\ InitNumberIdle /\ InitReaderIdle /\ InitFilesIdle
    /\ \/ /\ env \in {{}, {"rate_limit"}}
          /\ offered = Offers(runCategory)
       \/ /\ env = {"lag"}
          /\ offered = {o \in Offers(runCategory) :
                           /\ o.brand = "GS"
                           /\ Len(o.file.rows) = 1
                           /\ Len(o.file.headers) = 1}

NextConcurrent ==
    \E c \in Callers :
        \/ BeginUpload(c)
        \/ UploadStep(c)

SpecConcurrent == InitConcurrent /\ [][NextConcurrent]_vars

-----------------------------------------------------------------------------
(* Column mapper (column_mapper.py).  Header texts are sequences of         *)
(* characters; a dict is the sequence of its items in insertion order.     *)

LowerLetters == <<"a", "b", "c", "d", "e", "f", "g", "h", "i", "j", "k", "l",
                  "m", "n", "o", "p", "q", "r", "s", "t", "u", "v", "w", "x",
                  "y", "z">>

Lower(ch) ==
    IF \E i \in 1..Len(Letters) : Letters[i] = ch
    THEN LowerLetters[CHOOSE i \in 1..Len(Letters) : Letters[i] = ch]
    ELSE ch

RECURSIVE LStrip(_)
LStrip(str) == IF str # <<>> /\ Head(str) = " " THEN LStrip(Tail(str)) ELSE str

RECURSIVE RStrip(_)
RStrip(str) ==
    IF str # <<>> /\ str[Len(str)] = " "
    THEN RStrip(SubSeq(str, 1, Len(str) - 1)) ELSE str

\* str(header).lower().strip()
normalize_header(header) ==
    RStrip(LStrip([i \in 1..Len(header) |-> Lower(header[i])]))

\* key.startswith(prefix)
StartsWith(key, prefix) ==
    Len(prefix) <= Len(key) /\ SubSeq(key, 1, Len(prefix)) = prefix

\* Dict operations: items are [key, indices], in insertion order.
DictHas(d, key) == \E i \in 1..Len(d) : d[i].key = key
DictPos(d, key) == CHOOSE i \in 1..Len(d) : d[i].key = key
DictGet(d, key) == d[DictPos(d, key)].indices

\* Faulty variant: a direct match is never found.
Unclaimed_Never(d, key) == FALSE

\* key in working_map and working_map[key]
Unclaimed(d, key) == DictHas(d, key) /\ DictGet(d, key) # <<>>

\* Faulty variant: the column is read but not removed from the working map.
Popped_NoPop(d, key) == d

\* working_map[key].pop(0): the dict afterwards
Popped(d, key) == [d EXCEPT ![DictPos(d, key)].indices = Tail(@)]

\* Column indices are 0-based; NoIndex stands for Python's None.
NoIndex == -1

RECURSIVE build_from(_, _, _)
build_from(headers, idx, header_map) ==
    IF idx >= Len(headers) THEN header_map
    ELSE LET key == normalize_header(headers[idx + 1])
         IN  IF key = <<>> THEN build_from(headers, idx + 1, header_map)
             ELSE IF DictHas(header_map, key)
             THEN build_from(headers, idx + 1,
                     [header_map EXCEPT ![DictPos(header_map, key)].indices =
                          Append(@, idx)])
             ELSE build_from(headers, idx + 1,
                     Append(header_map, [key |-> key, indices |-> <<idx>>]))

build_source_header_map(headers) == build_from(headers, 0, <<>>)

\* Faulty variant: the replacement whose unclaimed column is leftmost wins.
CoalesceExactKey_Leftmost(wm, replacements) ==
    LET keys == {normalize_header(replacements[r]) : r \in 1..Len(replacements)}
        hits == {k \in keys : Unclaimed(wm, k)}
    IN  IF hits = {} THEN <<>>
        ELSE <<CHOOSE k \in hits :
                 \A l \in hits : Head(DictGet(wm, k)) <= Head(DictGet(wm, l))>>

\* apply_coalesce_exact: the first replacement with an unclaimed column
CoalesceExactKey(wm, replacements) ==
    LET hits == {r \in 1..Len(replacements) :
                    Unclaimed(wm, normalize_header(replacements[r]))}
    IN  IF hits = {} THEN <<>>
        ELSE <<normalize_header(
                 replacements[CHOOSE r \in hits : \A q \in hits : r <= q])>>

\* apply_coalesce_starts_with: patterns in order, keys in dict order
CoalesceStartsWithKey(wm, patterns) ==
    LET Hit(p, k) == /\ StartsWith(wm[k].key, normalize_header(patterns[p]))
                     /\ wm[k].indices # <<>>
        hits == {pk \in (1..Len(patterns)) \X (1..Len(wm)) : Hit(pk[1], pk[2])}
        First(pk) == \A qr \in hits :
                        pk[1] < qr[1] \/ (pk[1] = qr[1] /\ pk[2] <= qr[2])
    IN  IF hits = {} THEN <<>>
        ELSE <<wm[(CHOOSE pk \in hits : First(pk))[2]].key>>

\* Faulty variant: a SUM_STARTS_WITH rule claims the first column it sums.
ClaimedKey_SumClaims(wm, header, rules_by_column) ==
    LET header_key == normalize_header(header)
    IN  IF Unclaimed(wm, header_key) THEN <<header_key>>
        ELSE IF header \in DOMAIN rules_by_column
        THEN LET rule == rules_by_column[header]
             IN  IF rule.action = "COALESCE_EXACT"
                 THEN CoalesceExactKey(wm, rule.replacements)
                 ELSE CoalesceStartsWithKey(wm, rule.replacements)
        ELSE <<>>

\* The key whose leftmost unclaimed column output header `header` claims
\* (<<key>>), or <<>>: direct match first, else its COALESCE rule.
ClaimedKey(wm, header, rules_by_column) ==
    LET header_key == normalize_header(header)
    IN  IF Unclaimed(wm, header_key) THEN <<header_key>>
        ELSE IF header \in DOMAIN rules_by_column
        THEN LET rule == rules_by_column[header]
             IN  IF rule.action = "COALESCE_EXACT"
                 THEN CoalesceExactKey(wm, rule.replacements)
                 ELSE IF rule.action = "COALESCE_STARTS_WITH"
                 THEN CoalesceStartsWithKey(wm, rule.replacements)
                 ELSE <<>>
        ELSE <<>>

\* The rule recorded for the header: only when there was no direct match
RuleOf(wm, header, rules_by_column) ==
    IF ~Unclaimed(wm, normalize_header(header)) /\ header \in DOMAIN rules_by_column
    THEN rules_by_column[header].action
    ELSE "None"

\* One iteration of the loop of _calculate_mapping, for the next output header.
MapHeader ==
    /\ mpc = "map"
    /\ Len(mappings) < Len(outHeaders)
    /\ LET header == outHeaders[Len(mappings) + 1]
           claim == ClaimedKey(working_map, header, rules)
       IN  /\ mappings' = Append(mappings,
                  [header |-> header,
                   source_idx |-> IF claim = <<>> THEN NoIndex
                                  ELSE Head(DictGet(working_map, claim[1])),
                   rule |-> RuleOf(working_map, header, rules)])
           /\ working_map' = IF claim = <<>> THEN working_map
                             ELSE Popped(working_map, claim[1])
    /\ UNCHANGED <<mpc, srcHeaders, outHeaders, rules, srcRows, outRows, parsed,
                   dynamic, standard_headers, column_aliases,
                   lvars, nvars, rvars, fvars>>

\* return mappings
MapReturn ==
    /\ mpc = "map"
    /\ Len(mappings) = Len(outHeaders)
    /\ mpc' = "done"
    /\ UNCHANGED <<srcHeaders, outHeaders, rules, working_map, mappings, srcRows,
                   outRows, parsed, dynamic, standard_headers, column_aliases,
                   lvars, nvars, rvars, fvars>>

(* detect_dynamic_headers and the output headers of map_file.  Digits,    *)
(* blanks and letters as in the headers of the model; \s is the blank.     *)

\* str[p:].startswith(word), 1-based
HasAt(str, p, word) ==
    /\ p + Len(word) - 1 <= Len(str)
    /\ SubSeq(str, p, p + Len(word) - 1) = word

\* word in str
Contains(str, word) == \E p \in 1..Len(str) : HasAt(str, p, word)

\* \s* from position p: the first position that holds no blank
RECURSIVE SkipSpaces(_, _)
SkipSpaces(str, p) ==
    IF p <= Len(str) /\ str[p] = " " THEN SkipSpaces(str, p + 1) ELSE p

\* (\d+) from position p: the position after the digits
RECURSIVE DigitsEnd(_, _)
DigitsEnd(str, p) ==
    IF p <= Len(str) /\ str[p] \in {"0", "1", "2", "3", "4", "5", "6", "7", "8", "9"}
    THEN DigitsEnd(str, p + 1) ELSE p

W_nama == <<"n", "a", "m", "a">>
W_foto == <<"f", "o", "t", "o">>
W_variasi == <<"v", "a", "r", "i", "a", "s", "i">>
W_option == <<"o", "p", "t", "i", "o", "n">>
W_name == <<"n", "a", "m", "e">>
W_image == <<"i", "m", "a", "g", "e">>
W_size_guide == <<"s", "i", "z", "e", " ", "g", "u", "i", "d", "e">>
W_foto_panduan == <<"f", "o", "t", "o", " ", "p", "a", "n", "d", "u", "a", "n", " ",
                    "u", "k", "u", "r", "a", "n">>

\* The base-10 number of the digits str[from..to-1].
RECURSIVE DigitsValue(_, _, _)
DigitsValue(str, from, to) ==
    IF to <= from THEN 0
    ELSE 10 * DigitsValue(str, from, to - 1)
         + (CHOOSE d \in 0..9 :
               <<"0", "1", "2", "3", "4", "5", "6", "7", "8", "9">>[d + 1] = str[to - 1])

\* re.search(r'first\s*variasi\s*(\d+)', str): <<number>> of the leftmost
\* match, or <<>>
SearchVariasi(str, first) ==
    LET At(p) == LET q == SkipSpaces(str, p + Len(first))
                     r == SkipSpaces(str, q + Len(W_variasi))
                 IN  IF /\ HasAt(str, p, first)
                        /\ HasAt(str, q, W_variasi)
                        /\ DigitsEnd(str, r) > r
                     THEN <<DigitsValue(str, r, DigitsEnd(str, r))>>
                     ELSE <<>>
        hits == {p \in 1..Len(str) : At(p) # <<>>}
    IN  IF hits = {} THEN <<>>
        ELSE At(CHOOSE p \in hits : \A q \in hits : p <= q)

\* re.search(r'option\s*(\d+)\s*last', str)
SearchOption(str, last) ==
    LET At(p) == LET q == SkipSpaces(str, p + Len(W_option))
                     e == DigitsEnd(str, q)
                     r == SkipSpaces(str, e)
                 IN  IF /\ HasAt(str, p, W_option)
                        /\ e > q
                        /\ HasAt(str, r, last)
                     THEN <<DigitsValue(str, q, e)>>
                     ELSE <<>>
        hits == {p \in 1..Len(str) : At(p) # <<>>}
    IN  IF hits = {} THEN <<>>
        ELSE At(CHOOSE p \in hits : \A q \in hits : p <= q)

\* What the loop of detect_dynamic_headers takes a header for.
Detected(header) ==
    LET header_lower == normalize_header(header)
        nama == SearchVariasi(header_lower, W_nama)
        foto == SearchVariasi(header_lower, W_foto)
        option_name == SearchOption(header_lower, W_name)
        option_image == SearchOption(header_lower, W_image)
    IN  IF Contains(header_lower, W_foto_panduan) \/ Contains(header_lower, W_size_guide)
        THEN [kind |-> "special", num |-> 0]
        ELSE IF nama # <<>> THEN [kind |-> "name", num |-> nama[1]]
        ELSE IF foto # <<>> THEN [kind |-> "image", num |-> foto[1]]
        ELSE IF option_name # <<>> THEN [kind |-> "name", num |-> option_name[1]]
        ELSE IF option_image # <<>> THEN [kind |-> "image", num |-> option_image[1]]
        ELSE [kind |-> "none", num |-> 0]

MaxPairs == 15

\* name_dict[num] / image_dict[num] as <<header>>, or <<>>: of several headers
\* of one number the dict keeps the last.
DictOf(headers, kind, num) ==
    LET is == {i \in 1..Len(headers) :
                  Detected(headers[i]) = [kind |-> kind, num |-> num]}
    IN  IF is = {} THEN <<>>
        ELSE <<headers[CHOOSE i \in is : \A j \in is : j <= i]>>

\* Faulty variant: the image header of a number before its name header.
PairOf_ImageFirst(headers, num) ==
    DictOf(headers, "image", num) \o DictOf(headers, "name", num)

\* The headers appended for one number: name, then image.
PairOf(headers, num) ==
    DictOf(headers, "name", num) \o DictOf(headers, "image", num)

RECURSIVE Interleaved(_, _)
Interleaved(headers, nums) ==
    IF nums = {} THEN <<>>
    ELSE LET num == CHOOSE n \in nums : \A m \in nums : n <= m
         IN  PairOf(headers, num) \o Interleaved(headers, nums \ {num})

detect_dynamic_headers(headers) ==
    LET IsSpecial(h) == Detected(h).kind = "special"
        numbers == {Detected(headers[i]).num :
                       i \in {j \in 1..Len(headers) :
                                 Detected(headers[j]).kind \in {"name", "image"}}}
        all_numbers == {n \in numbers :
                           Cardinality({m \in numbers : m < n}) < MaxPairs}
    IN  SelectSeq(headers, IsSpecial) \o Interleaved(headers, all_numbers)

\* output_headers: the standard headers, then each dynamic header whose
\* normalized name is not among them yet.
\* Faulty variant: every dynamic header is appended, present or not.
Appended_All(output_headers, dynamic_headers) ==
    output_headers \o dynamic_headers

RECURSIVE Appended(_, _)
Appended(output_headers, dynamic_headers) ==
    IF dynamic_headers = <<>> THEN output_headers
    ELSE LET dh == Head(dynamic_headers)
             standard_set == {normalize_header(output_headers[i]) :
                                 i \in 1..Len(output_headers)}
         IN  IF normalize_header(dh) \notin standard_set
             THEN Appended(Append(output_headers, dh), Tail(dynamic_headers))
             ELSE Appended(output_headers, Tail(dynamic_headers))

\* map_file up to the call of _calculate_mapping, with include_dynamic set;
\* outHeaders holds self.standard_headers before and output_headers after.
MapFileBegin ==
    /\ mpc = "begin"
    /\ dynamic' = detect_dynamic_headers(srcHeaders)
    /\ outHeaders' = Appended(outHeaders, dynamic')
    /\ mpc' = "map"
    /\ UNCHANGED <<srcHeaders, rules, working_map, mappings, srcRows, outRows,
                   parsed, standard_headers, column_aliases,
                   lvars, nvars, rvars, fvars>>

(* _map_row and the rows of map_file.  A cell is a text (a sequence of      *)
(* characters) or None.                                                    *)

PyNone == <<"None">>
IndexError == <<"IndexError">>

\* str(value).strip()
Strip(str) == RStrip(LStrip(str))

\* source_row[idx], 0-based
ListGet(source_row, idx) ==
    IF idx < Len(source_row) THEN source_row[idx + 1] ELSE IndexError

\* Faulty variant: the index is used without looking at the row's length.
InRange_Unchecked(source_row, idx) == TRUE

\* source_idx < len(source_row)
InRange(source_row, idx) == idx < Len(source_row)

Digits == <<"0", "1", "2", "3", "4", "5", "6", "7", "8", "9">>
IsDigit(ch) == \E d \in 1..Len(Digits) : Digits[d] = ch
DigitValue(ch) == (CHOOSE d \in 1..Len(Digits) : Digits[d] = ch) - 1

\* value_str.replace('.', '').replace(',', '.')
Unseparated(str) ==
    LET NotDot(ch) == ch # "."
    IN  [i \in 1..Len(SelectSeq(str, NotDot)) |->
            IF SelectSeq(str, NotDot)[i] = "," THEN "."
            ELSE SelectSeq(str, NotDot)[i]]

\* float(value_str) succeeds: here for texts of digits only
IsNumber(str) == str # <<>> /\ \A i \in 1..Len(str) : IsDigit(str[i])

RECURSIVE NumberOf(_)
NumberOf(str) ==
    IF str = <<>> THEN 0
    ELSE 10 * NumberOf(SubSeq(str, 1, Len(str) - 1)) + DigitValue(str[Len(str)])

RECURSIVE IntToStr(_)
IntToStr(n) ==
    IF n < 10 THEN <<Digits[n + 1]>>
    ELSE Append(IntToStr(n \div 10), Digits[(n % 10) + 1])

Count(str, ch) == Cardinality({i \in 1..Len(str) : str[i] = ch})

\* str.index(ch)
IndexOf(str, ch) ==
    CHOOSE i \in 1..Len(str) : str[i] = ch /\ \A j \in 1..(i - 1) : str[j] # ch

\* str.replace(ch, '')
Remove(str, ch) == LET Keep(x) == x # ch IN SelectSeq(str, Keep)

\* str.replace(a, b)
Replace(str, a, b) == [i \in 1..Len(str) |-> IF str[i] = a THEN b ELSE str[i]]

\* Decimal(str): "finite" with sign, units and scale, "nan", "inf", or
\* "invalid" (InvalidOperation).
DecimalOf(str) ==
    LET signed == str # <<>> /\ Head(str) \in {"-", "+"}
        neg == signed /\ Head(str) = "-"
        body == IF signed THEN Tail(str) ELSE str
        low == [i \in 1..Len(body) |-> Lower(body[i])]
        digits == Remove(body, ".")
    IN  IF low \in {<<"n", "a", "n">>, <<"s", "n", "a", "n">>}
        THEN [kind |-> "nan", neg |-> neg, units |-> 0, scale |-> 0]
        ELSE IF low \in {<<"i", "n", "f">>,
                         <<"i", "n", "f", "i", "n", "i", "t", "y">>}
        THEN [kind |-> "inf", neg |-> neg, units |-> 0, scale |-> 0]
        ELSE IF IsNumber(digits) /\ Count(body, ".") <= 1
        THEN [kind |-> "finite", neg |-> neg, units |-> NumberOf(digits),
              scale |-> IF Count(body, ".") = 1
                        THEN Len(body) - IndexOf(body, ".") ELSE 0]
        ELSE [kind |-> "invalid", neg |-> FALSE, units |-> 0, scale |-> 0]

\* float(str): as Decimal(str) for the texts of the model, but a signalling
\* NaN is no float (ValueError).
FloatOf(str) ==
    LET dec == DecimalOf(str)
        low == [i \in 1..Len(str) |-> Lower(str[i])]
    IN  IF dec.kind = "nan" /\ low \notin {<<"n", "a", "n">>, <<"-", "n", "a", "n">>,
                                          <<"+", "n", "a", "n">>}
        THEN [kind |-> "invalid", neg |-> FALSE, units |-> 0, scale |-> 0]
        ELSE dec

RECURSIVE Pow10(_)
Pow10(n) == IF n = 0 THEN 1 ELSE 10 * Pow10(n - 1)

\* The texts apply_sum_starts_with skips.
NotANumber == { <<"-">>, <<"N", "/", "A">>, <<"#", "N", "/", "A">> }

\* The float a cell adds to the sum, as <<f>>, or <<>> when it adds none.
Addend(source_row, idx) ==
    IF ~(idx < Len(source_row)) THEN <<>>
    ELSE LET cell == source_row[idx + 1]
             value_str == Strip(cell)
         IN  IF cell = PyNone \/ value_str = <<>> \/ value_str \in NotANumber
             THEN <<>>
             ELSE IF FloatOf(Unseparated(value_str)).kind # "invalid"
             THEN <<FloatOf(Unseparated(value_str))>>
             ELSE <<>>

\* The sum of the finite numbers in a set of decimals, in units of 10^-scale.
RECURSIVE SumUnits(_, _)
SumUnits(S, scale) ==
    IF S = {} THEN 0
    ELSE LET t == CHOOSE x \in S : TRUE
             u == t[2].units * Pow10(scale - t[2].scale)
         IN  (IF t[2].neg THEN 0 - u ELSE u) + SumUnits(S \ {t}, scale)

ValueError == <<"ValueError">>
OverflowError == <<"OverflowError">>

\* str(int(total)) or str(total) of total = units / 10^scale
RECURSIVE FormatTotal(_, _)
FormatTotal(units, scale) ==
    IF scale > 0 /\ units % 10 = 0 THEN FormatTotal(units \div 10, scale - 1)
    ELSE LET abs == IF units < 0 THEN 0 - units ELSE units
             sign == IF units < 0 THEN <<"-">> ELSE <<>>
             frac == IntToStr(abs % Pow10(scale))
             zeros == [i \in 1..(scale - Len(frac)) |-> "0"]
         IN  IF scale = 0 THEN sign \o IntToStr(abs)
             ELSE sign \o IntToStr(abs \div Pow10(scale)) \o <<".">> \o zeros \o frac

\* apply_sum_starts_with(source_row, source_header_map, patterns): the text
\* returned, or the exception int(total) raises for a total that is not
\* finite.
apply_sum_starts_with(source_row, header_map, patterns) ==
    LET matches == {m \in (1..Len(patterns)) \X (1..Len(header_map)) :
                       StartsWith(header_map[m[2]].key,
                                  normalize_header(patterns[m[1]]))}
        hits == UNION { {<<m[1], m[2], j>> :
                            j \in 1..Len(header_map[m[2]].indices)} :
                        m \in matches }
        AddendOf(t) == Addend(source_row, header_map[t[2]].indices[t[3]])
        added == {<<t, AddendOf(t)[1]>> : t \in {h \in hits : AddendOf(h) # <<>>}}
        Kind(k) == \E a \in added : a[2].kind = k
        finite == {a \in added : a[2].kind = "finite"}
        scale == IF finite = {} THEN 0
                 ELSE CHOOSE n \in {a[2].scale : a \in finite} :
                         \A a \in finite : a[2].scale <= n
        found_any == added # {}
    IN  IF ~found_any THEN <<>>
        ELSE IF Kind("nan") \/ (\E a, b \in added :
                                   /\ a[2].kind = "inf" /\ b[2].kind = "inf"
                                   /\ a[2].neg # b[2].neg)
        THEN ValueError
        ELSE IF Kind("inf") THEN OverflowError
        ELSE FormatTotal(SumUnits(finite, scale), scale)

\* The value _map_row computes for one mapping.
MappedValue(source_row, mapping, header_map, rules_by_column) ==
    IF mapping.source_idx # NoIndex
    THEN IF InRange(source_row, mapping.source_idx)
         THEN LET value == ListGet(source_row, mapping.source_idx)
              IN  IF value = IndexError THEN IndexError
                  ELSE IF value = PyNone THEN <<>>
                  ELSE Strip(value)
         ELSE <<>>
    ELSE IF mapping.rule = "SUM_STARTS_WITH"
    THEN apply_sum_starts_with(source_row, header_map,
                               rules_by_column[mapping.header].replacements)
    ELSE <<>>

\* output_row: the dict keeps, for a header, the value written last
map_row(source_row, column_mapping, header_map, rules_by_column) ==
    LET headers == {column_mapping[i].header : i \in 1..Len(column_mapping)}
        Last(h) == CHOOSE i \in 1..Len(column_mapping) :
                      /\ column_mapping[i].header = h
                      /\ \A j \in 1..Len(column_mapping) :
                            column_mapping[j].header = h => j <= i
    IN  [h \in headers |->
            MappedValue(source_row, column_mapping[Last(h)], header_map,
                        rules_by_column)]

\* IndexError left _map_row
RowRaises(source_row, column_mapping, header_map, rules_by_column) ==
    \E i \in 1..Len(column_mapping) :
        MappedValue(source_row, column_mapping[i], header_map, rules_by_column)
            = IndexError

\* ValueError or OverflowError left apply_sum_starts_with
SumRaises(source_row, column_mapping, header_map, rules_by_column) ==
    \E i \in 1..Len(column_mapping) :
        MappedValue(source_row, column_mapping[i], header_map, rules_by_column)
            \in {ValueError, OverflowError}

\* One iteration of map_file's loop over source_rows.
MapRow ==
    /\ mpc = "done"
    /\ Len(outRows) < Len(srcRows)
    /\ LET source_row == srcRows[Len(outRows) + 1]
           header_map == build_source_header_map(srcHeaders)
       IN  IF RowRaises(source_row, mappings, header_map, rules)
           THEN mpc' = "raised" /\ UNCHANGED outRows
           ELSE IF SumRaises(source_row, mappings, header_map, rules)
           THEN mpc' = "sum_raised" /\ UNCHANGED outRows
           ELSE /\ outRows' = Append(outRows,
                                     map_row(source_row, mappings, header_map, rules))
                /\ UNCHANGED mpc
    /\ UNCHANGED <<srcHeaders, outHeaders, rules, working_map, mappings, srcRows,
                   parsed, dynamic, standard_headers, column_aliases,
                   lvars, nvars, rvars, fvars>>

\* return output_headers, output_rows
MapFileReturn ==
    /\ mpc = "done"
    /\ Len(outRows) = Len(srcRows)
    /\ mpc' = "returned"
    /\ UNCHANGED <<srcHeaders, outHeaders, rules, working_map, mappings, srcRows,
                   outRows, parsed, dynamic, standard_headers, column_aliases,
                   lvars, nvars, rvars, fvars>>

(* parse_file from the column mapping on: the mapping engine inside a try, *)
(* the raw fallback, header cleaning and the ParsedFile.                   *)

\* re.sub(r'[cls]+', '_', str): each run of characters of cls becomes one '_'
RECURSIVE SubRuns(_, _)
SubRuns(str, cls) ==
    IF str = <<>> THEN <<>>
    ELSE IF Head(str) \in cls
    THEN IF Len(str) > 1 /\ str[2] \in cls THEN SubRuns(Tail(str), cls)
         ELSE <<"_">> \o SubRuns(Tail(str), cls)
    ELSE <<Head(str)>> \o SubRuns(Tail(str), cls)

\* [a-z0-9_]
NameChars ==
    {LowerLetters[i] : i \in 1..Len(LowerLetters)}
        \cup {Digits[i] : i \in 1..Len(Digits)} \cup {"_"}

RECURSIVE StripUnderscores(_)
StripUnderscores(str) ==
    IF str # <<>> /\ Head(str) = "_" THEN StripUnderscores(Tail(str))
    ELSE IF str # <<>> /\ str[Len(str)] = "_"
    THEN StripUnderscores(SubSeq(str, 1, Len(str) - 1))
    ELSE str

clean_header(header) ==
    IF header = <<>> THEN <<>>
    ELSE LET IsNameChar(ch) == ch \in NameChars
             lowered == normalize_header(header)
             joined == SubRuns(lowered, {" ", "-", "."})
             kept == SelectSeq(joined, IsNameChar)
         IN  StripUnderscores(SubRuns(kept, {"_"}))

ColumnName == <<"c", "o", "l", "u", "m", "n">>

\* The loop over cleaned_headers: an empty name becomes "column", and a name
\* seen k times before gets the suffix _k.
unique_headers(cleaned_headers) ==
    LET Name(i) == IF cleaned_headers[i] = <<>> THEN ColumnName
                   ELSE cleaned_headers[i]
        Seen(i) == Cardinality({j \in 1..(i - 1) : Name(j) = Name(i)})
    IN  [i \in 1..Len(cleaned_headers) |->
            IF Seen(i) = 0 THEN Name(i)
            ELSE Name(i) \o <<"_">> \o IntToStr(Seen(i))]

parse_cell_value(value) == IF value = PyNone THEN <<>> ELSE Strip(value)

\* _parse_raw_data: one dict per row, keyed by header; a later column of the
\* same header overwrites an earlier one.
parse_raw_data(headers, rows) ==
    LET Last(h) == CHOOSE i \in 1..Len(headers) :
                      /\ headers[i] = h
                      /\ \A j \in 1..Len(headers) : headers[j] = h => j <= i
    IN  [r \in 1..Len(rows) |->
            [h \in {headers[i] : i \in 1..Len(headers)} |->
                IF Last(h) - 1 < Len(rows[r]) THEN rows[r][Last(h)] ELSE <<>>]]

\* final_rows: the row dicts rekeyed by the unique cleaned headers
final_rows(output_headers, uniq, parsed_rows) ==
    LET Last(u) == CHOOSE i \in 1..Len(uniq) :
                      /\ uniq[i] = u
                      /\ \A j \in 1..Len(uniq) : uniq[j] = u => j <= i
        Get(row, h) == IF h \in DOMAIN row THEN row[h] ELSE <<>>
    IN  [r \in 1..Len(parsed_rows) |->
            [u \in {uniq[i] : i \in 1..Len(uniq)} |->
                parse_cell_value(Get(parsed_rows[r], output_headers[Last(u)]))]]

\* Faulty variant: the flag is set as soon as the mapping is attempted.
ColumnMappedAfter_Attempted(outcome) == TRUE

\* column_mapped: set after map_file has returned, inside the try
ColumnMappedAfter(outcome) == outcome = "returned"

\* The ParsedFile built from output_headers and parsed_rows.
ParsedFileOf(output_headers, parsed_rows, outcome) ==
    LET cleaned_headers == [i \in 1..Len(output_headers) |->
                               clean_header(output_headers[i])]
        uniq == unique_headers(cleaned_headers)
    IN  [headers |-> uniq,
         rows |-> final_rows(output_headers, uniq, parsed_rows),
         column_mapped |-> ColumnMappedAfter(outcome),
         source_headers |-> srcHeaders]

\* create_mapper_for_category raises on a malformed alias configuration,
\* before any header is mapped.
CreateMapperRaises ==
    /\ mpc = "map"
    /\ outHeaders # <<>>
    /\ mappings = <<>>
    /\ mpc' = "no_mapper"
    /\ UNCHANGED <<srcHeaders, outHeaders, rules, working_map, mappings, srcRows,
                   outRows, parsed, dynamic, standard_headers, column_aliases,
                   lvars, nvars, rvars, fvars>>

\* map_file returned: the mapped headers and rows are used.
ParseMapped ==
    /\ mpc = "returned"
    /\ outHeaders # <<>>
    /\ parsed' = ParsedFileOf(outHeaders, outRows, mpc)
    /\ mpc' = "parsed"
    /\ UNCHANGED <<srcHeaders, outHeaders, rules, working_map, mappings, srcRows,
                   outRows, dynamic, standard_headers, column_aliases,
                   lvars, nvars, rvars, fvars>>

\* category.required_headers is empty: no mapping, the raw data is used.
ParseRaw ==
    /\ mpc = "map"
    /\ outHeaders = <<>>
    /\ parsed' = ParsedFileOf(srcHeaders, parse_raw_data(srcHeaders, srcRows), mpc)
    /\ mpc' = "parsed"
    /\ UNCHANGED <<srcHeaders, outHeaders, rules, working_map, mappings, srcRows,
                   outRows, dynamic, standard_headers, column_aliases,
                   lvars, nvars, rvars, fvars>>

\* except Exception: fall back to _parse_raw_data
ParseFallback ==
    /\ mpc \in {"no_mapper", "raised", "sum_raised"}
    /\ parsed' = ParsedFileOf(srcHeaders, parse_raw_data(srcHeaders, srcRows), mpc)
    /\ mpc' = "parsed"
    /\ UNCHANGED <<srcHeaders, outHeaders, rules, working_map, mappings, srcRows,
                   outRows, dynamic, standard_headers, column_aliases,
                   lvars, nvars, rvars, fvars>>

(* Inputs of a mapping pass.                                               *)

MaxSource == 3      \* most columns of a source header row
MaxOutput == 2      \* most output headers

H_SKU == <<"S", "K", "U">>
H_sku_padded == <<" ", "s", "k", "u", " ">>
H_Qty == <<"Q", "t", "y">>
H_Qty_A == <<"Q", "t", "y", " ", "A">>
H_Total == <<"T", "o", "t", "a", "l">>

SourceHeaderPool == {H_SKU, H_sku_padded, H_Qty_A, <<>>}
OutputHeaderPool == {H_SKU, H_Qty, H_Total}

Rule(action, replacements) == [action |-> action, replacements |-> replacements]

\* The rules a header may be configured with.
RulePool ==
    { Rule("COALESCE_EXACT", <<H_Qty, H_Qty_A, H_sku_padded>>),
      Rule("COALESCE_STARTS_WITH", <<H_Total, H_Qty>>),
      Rule("SUM_STARTS_WITH", <<H_Qty>>) }

SeqsUpTo(S, n) == UNION { [1..k -> S] : k \in 1..n }

\* rules_by_column: a rule for none, one or both of the headers Qty and SKU
RuleSets ==
    { [h \in hs |-> r] : hs \in SUBSET {H_Qty, H_SKU}, r \in RulePool }

\* The cells of a source row, by column: padded text, None, a number, text.
CellPool == << <<" ", "1", " ">>, PyNone, <<"2">>, <<"x">> >>
SourceRow(n) == [i \in 1..n |-> CellPool[((i - 1) % Len(CellPool)) + 1]]

\* source_rows for n source columns: none, one full row, or a row one cell
\* short followed by a full row.  parse_file hands over rows that are not
\* empty (lines 357-363), so the short row has at least one cell.
SourceRows(n) ==
    { <<>>, <<SourceRow(n)>> }
        \cup (IF n > 1 THEN { <<SourceRow(n - 1), SourceRow(n)>> } ELSE {})

InitLoaderIdle ==
    /\ env = {}
    /\ offered = {}
    /\ runCategory \in {CHOOSE cat \in Categories : TRUE}
    /\ runs = <<>>
    /\ dsExists = FALSE
    /\ tblExists = FALSE
    /\ tblSchema = <<>>
    /\ tblRows = EmptyBag
    /\ tblExists0 = FALSE
    /\ tblRows0 = EmptyBag
    /\ InitCallers

\* A mapping pass: _calculate_mapping(output_headers, source_header_map)
InitMap ==
    /\ InitLoaderIdle /\ InitNumberIdle /\ InitReaderIdle /\ InitFilesIdle
    /\ mpc = "map"
    /\ srcHeaders \in SeqsUpTo(SourceHeaderPool, MaxSource)
    /\ outHeaders \in SeqsUpTo(OutputHeaderPool, MaxOutput)
    /\ rules \in RuleSets
    /\ working_map = build_source_header_map(srcHeaders)
    /\ mappings = <<>>
    /\ srcRows = <<>>
    /\ outRows = <<>>
    /\ parsed = NoParsedFile
    /\ dynamic = <<>>
    /\ standard_headers = outHeaders
    /\ column_aliases = << >>

NextMap == MapHeader \/ MapReturn

SpecMap == InitMap /\ [][NextMap]_vars

\* parse_file from the mapping on: the headers and filtered rows of a file,
\* and the category's required_headers, which may be empty.
InitParse ==
    /\ InitLoaderIdle /\ InitNumberIdle /\ InitReaderIdle /\ InitFilesIdle
    /\ mpc = "map"
    /\ srcHeaders \in SeqsUpTo(SourceHeaderPool, MaxSource)
    /\ outHeaders \in SeqsUpTo(OutputHeaderPool, MaxOutput) \cup {<<>>}
    /\ rules \in RuleSets
    /\ working_map = build_source_header_map(srcHeaders)
    /\ mappings = <<>>
    /\ srcRows \in SourceRows(Len(srcHeaders))
    /\ outRows = <<>>
    /\ parsed = NoParsedFile
    /\ dynamic = <<>>
    /\ standard_headers = outHeaders
    /\ column_aliases = << >>

NextParse ==
    \/ MapHeader \/ MapReturn \/ MapRow \/ MapFileReturn
    \/ CreateMapperRaises \/ ParseMapped \/ ParseRaw \/ ParseFallback

SpecParse == InitParse /\ [][NextParse]_vars

MaxRawCols == 3     \* most columns of a file parsed without a schema

H_SKU_1 == <<"S", "K", "U", " ", "1">>

\* Header texts as the readers deliver them: stripped, possibly empty.
RawHeaderPool == {H_SKU, H_SKU_1, H_Qty_A, <<>>}

\* parse_file for a category without required_headers: the raw branch, the
\* header cleaning and the final rows.
InitRaw ==
    /\ InitLoaderIdle /\ InitNumberIdle /\ InitReaderIdle /\ InitFilesIdle
    /\ mpc = "map"
    /\ srcHeaders \in SeqsUpTo(RawHeaderPool, MaxRawCols)
    /\ outHeaders = <<>>
    /\ rules = << >>
    /\ working_map = build_source_header_map(srcHeaders)
    /\ mappings = <<>>
    /\ srcRows \in SourceRows(Len(srcHeaders))
    /\ outRows = <<>>
    /\ parsed = NoParsedFile
    /\ dynamic = <<>>
    /\ standard_headers = outHeaders
    /\ column_aliases = << >>

NextRaw == ParseRaw

SpecRaw == InitRaw /\ [][NextRaw]_vars

-----------------------------------------------------------------------------
(* parse_file up to the mapping: reading the file and filtering its rows.  *)
(* A file is the sequence of its rows; what reads it is decided by fmt:    *)
(* "csv", "xlsx", "xls" by the file name, and for any other name           *)
(* "other_xlsx" (the content loads as a workbook), "other_text" (it does   *)
(* not, and is read as delimited text) or "unreadable" (neither).          *)

\* f"column_{i}"
column_i(i) == ColumnName \o <<"_">> \o IntToStr(i)

\* all_rows[n:]
RowsFrom(rows, n) == SubSeq(rows, n + 1, Len(rows))

NoReading == [headers |-> <<>>, data_rows |-> <<>>]

\* read_csv_file: the first row is the header row, the rest is data; the
\* offsets of the category are not among its arguments.
read_csv_file(rows, hrow, drow) ==
    IF rows = <<>> THEN NoReading
    ELSE [headers |-> [i \in 1..Len(rows[1]) |-> Strip(rows[1][i])],
          data_rows |-> RowsFrom(rows, 1)]

\* read_xlsx_file and read_xls_file: headers from row header_row, an empty
\* header cell named by its position; data from row data_start_row on.
read_xlsx_file(rows, hrow, drow) ==
    IF rows = <<>> \/ Len(rows) <= hrow THEN NoReading
    ELSE [headers |-> [i \in 1..Len(rows[hrow + 1]) |->
                          IF rows[hrow + 1][i] \in {PyNone, <<>>}
                          THEN column_i(i - 1)
                          ELSE Strip(rows[hrow + 1][i])],
          data_rows |-> RowsFrom(rows, drow)]

\* The reader parse_file calls for the file.
ReadBy(kind, rows, hrow, drow) ==
    IF kind \in {"csv", "other_text"} THEN read_csv_file(rows, hrow, drow)
    ELSE read_xlsx_file(rows, hrow, drow)

\* Faulty variant: no row counts as blank.
IsBlankRow_Never(row) == FALSE

\* not row or all(cell is None or (isinstance(cell, str) and not cell.strip()))
IsBlankRow(row) ==
    \A i \in 1..Len(row) : row[i] = PyNone \/ Strip(row[i]) = <<>>

\* The ParsedFile returned before any row is read: no headers, no rows.
EarlyReturn(message) ==
    /\ parsed' = NoParsedFile
    /\ file_errors' = <<message>>
    /\ rpc' = "returned"
    /\ UNCHANGED <<mpc, srcHeaders, srcRows, working_map, raw_rows, skipped>>

\* parse_file from its entry to the mapping: the file is read, a read error
\* or a file without headers ends the call, else the blank rows are dropped
\* and counted and the rest is handed to the mapping.
ReadFile ==
    /\ rpc = "read"
    /\ IF fmt = "unreadable" THEN EarlyReturn("read error")
       ELSE LET read == ReadBy(fmt, all_rows, cfg_header_row, cfg_data_start_row)
                NotBlank(row) == ~IsBlankRow(row)
            IN  IF read.headers = <<>> THEN EarlyReturn("No headers found in file")
                ELSE /\ srcHeaders' = read.headers
                     /\ raw_rows' = read.data_rows
                     /\ srcRows' = SelectSeq(read.data_rows, NotBlank)
                     /\ skipped' = Len(read.data_rows)
                                     - Len(SelectSeq(read.data_rows, NotBlank))
                     /\ working_map' = build_source_header_map(read.headers)
                     /\ mpc' = "map"
                     /\ rpc' = "filtered"
                     /\ UNCHANGED <<parsed, file_errors>>
    /\ UNCHANGED <<outHeaders, rules, mappings, outRows, dynamic,
                   standard_headers, column_aliases, fmt, all_rows,
                   cfg_header_row, cfg_data_start_row, lvars, nvars, fvars>>

MaxFileRows == 3    \* most rows of a file, header and leading rows included

R_title == << <<"a">> >>
R_head == <<H_SKU, H_Qty_A>>
R_data == << <<"1">>, <<" ", "2", " ">> >>
R_blank == << <<>>, <<" ">> >>
R_none == <<PyNone, PyNone>>

\* Rows of a file: a title line of one cell, a header row, a data row, a row
\* of blank texts, an empty row, and a row of empty workbook cells.
FileRowPool == {R_title, R_head, R_data, R_blank, <<>>, R_none}

\* Delimited text holds texts only.
Readable(kind, rows) ==
    kind \in {"csv", "other_text"} => \A r \in 1..Len(rows) : rows[r] # R_none

\* parse_file for a file of any format and a category with any offsets, with
\* no required headers or with the required header SKU.
InitRead ==
    /\ InitLoaderIdle /\ InitNumberIdle /\ InitFilesIdle
    /\ mpc = "off"
    /\ srcHeaders = <<>>
    /\ outHeaders \in {<<>>, <<H_SKU>>}
    /\ rules = << >>
    /\ working_map = <<>>
    /\ mappings = <<>>
    /\ srcRows = <<>>
    /\ outRows = <<>>
    /\ parsed = NoParsedFile
    /\ dynamic = <<>>
    /\ standard_headers = outHeaders
    /\ column_aliases = << >>
    /\ rpc = "read"
    /\ fmt \in {"csv", "xlsx", "xls", "other_xlsx", "other_text", "unreadable"}
    /\ all_rows \in {rows \in SeqsUpTo(FileRowPool, MaxFileRows) \cup {<<>>} :
                        Readable(fmt, rows)}
    /\ cfg_header_row \in {0, 1}
    /\ cfg_data_start_row \in {cfg_header_row + 1, cfg_header_row + 2}
    /\ raw_rows = <<>>
    /\ skipped = 0
    /\ file_errors = <<>>

NextRead ==
    \/ ReadFile
    \/ MapHeader \/ MapReturn \/ MapRow \/ MapFileReturn
    \/ ParseMapped \/ ParseRaw

SpecRead == InitRead /\ [][NextRead]_vars

MaxDynCols == 4     \* most columns of a header row searched for dynamic headers

H_Nama_1 == <<"N", "a", "m", "a", " ", "V", "a", "r", "i", "a", "s", "i", " ", "1">>
H_Foto_1 == <<"F", "o", "t", "o", " ", "V", "a", "r", "i", "a", "s", "i", " ", "1">>
H_Foto_2 == <<"F", "o", "t", "o", " ", "V", "a", "r", "i", "a", "s", "i", " ", "2">>
H_Option_1_Name == <<"O", "p", "t", "i", "o", "n", " ", "1", " ", "N", "a", "m", "e">>
H_Option_2_Name == <<"O", "p", "t", "i", "o", "n", " ", "2", " ", "N", "a", "m", "e">>
H_Option_1_Image == <<"O", "p", "t", "i", "o", "n", " ", "1", " ", "I", "m", "a", "g", "e">>
H_Size_Guide == <<"S", "i", "z", "e", " ", "G", "u", "i", "d", "e", " ", "P", "h", "o", "t", "o">>
H_Name_1 == <<"N", "a", "m", "e", " ", "1">>
H_Name_2 == <<"N", "a", "m", "e", " ", "2">>
H_Image_1 == <<"I", "m", "a", "g", "e", " ", "1">>

DynHeaderPool ==
    { H_Nama_1, H_Foto_2, H_Option_1_Name, H_Option_2_Name, H_Option_1_Image,
      H_Size_Guide, H_Name_1, H_Name_2, H_Image_1 }

\* A header row with more numbers than MaxPairs, highest first:
\* "Nama Variasi 17", ..., "Nama Variasi 1".
ManyNumbers ==
    [i \in 1..(MaxPairs + 2) |->
        <<"N", "a", "m", "a", " ", "V", "a", "r", "i", "a", "s", "i", " ">>
            \o IntToStr(MaxPairs + 3 - i)]

\* Dynamic detection alone: map_file without standard headers and rows.
InitDetect ==
    /\ InitLoaderIdle /\ InitNumberIdle /\ InitReaderIdle /\ InitFilesIdle
    /\ mpc = "begin"
    /\ srcHeaders \in SeqsUpTo(DynHeaderPool, MaxDynCols) \cup {ManyNumbers}
    /\ outHeaders = <<>>
    /\ rules = << >>
    /\ working_map = build_source_header_map(srcHeaders)
    /\ mappings = <<>>
    /\ srcRows = <<>>
    /\ outRows = <<>>
    /\ parsed = NoParsedFile
    /\ dynamic = <<>>
    /\ standard_headers = outHeaders
    /\ column_aliases = << >>

NextDetect == MapFileBegin

SpecDetect == InitDetect /\ [][NextDetect]_vars

MaxDynSource == 3   \* most source columns of a file with dynamic headers

H_nama_1_lower == <<"n", "a", "m", "a", " ", "v", "a", "r", "i", "a", "s", "i", " ", "1">>
H_Nama == <<"N", "a", "m", "a">>

\* map_file with dynamic detection: the standard headers are SKU alone, SKU
\* and a variation name that the source may hold in other letter case, or a
\* header Qty that a rule may fill from a column starting with "Nama".
InitDynamic ==
    /\ InitLoaderIdle /\ InitNumberIdle /\ InitReaderIdle /\ InitFilesIdle
    /\ mpc = "begin"
    /\ srcHeaders \in SeqsUpTo({H_SKU, H_Nama_1, H_Foto_1, H_Option_1_Name},
                               MaxDynSource)
    /\ outHeaders \in {<<H_SKU>>, <<H_SKU, H_nama_1_lower>>, <<H_Qty>>}
    /\ rules \in { << >>,
                   (H_Qty :> Rule("COALESCE_STARTS_WITH", <<H_Nama>>)) }
    /\ working_map = build_source_header_map(srcHeaders)
    /\ mappings = <<>>
    /\ srcRows = <<SourceRow(Len(srcHeaders))>>
    /\ outRows = <<>>
    /\ parsed = NoParsedFile
    /\ dynamic = <<>>
    /\ standard_headers = outHeaders
    /\ column_aliases = << >>

NextDynamic ==
    MapFileBegin \/ MapHeader \/ MapReturn \/ MapRow \/ MapFileReturn

SpecDynamic == InitDynamic /\ [][NextDynamic]_vars

MaxSumCols == 2     \* most source columns of a summed row

H_Qty_B == <<"Q", "t", "y", " ", "B">>

\* Cells of a summed row: numbers, tokens of a missing value, None, blank,
\* text, and the texts float() reads as not-a-number and infinity.
SumCellPool ==
    { <<"1", "0">>, <<"-">>, <<"N", "/", "A">>, PyNone, <<" ">>, <<"x">>,
      <<"n", "a", "n">>, <<"i", "n", "f">>, <<"1", ",", "5">>, <<"-", "5">>, <<"1", ".", "0", "0", "0">> }

\* map_file for one row under a SUM_STARTS_WITH rule: the header Total sums
\* the columns whose name starts with Qty.
InitSum ==
    /\ InitLoaderIdle /\ InitNumberIdle /\ InitReaderIdle /\ InitFilesIdle
    /\ mpc = "map"
    /\ srcHeaders \in SeqsUpTo({H_Qty_A, H_Qty_B, H_SKU}, MaxSumCols)
    /\ outHeaders = <<H_Total>>
    /\ rules = (H_Total :> Rule("SUM_STARTS_WITH", <<H_Qty>>))
    /\ working_map = build_source_header_map(srcHeaders)
    /\ mappings = <<>>
    /\ srcRows \in { <<row>> : row \in SeqsUpTo(SumCellPool, Len(srcHeaders)) }
    /\ outRows = <<>>
    /\ parsed = NoParsedFile
    /\ dynamic = <<>>
    /\ standard_headers = outHeaders
    /\ column_aliases = << >>

NextSum == MapHeader \/ MapReturn \/ MapRow \/ MapFileReturn

SpecSum == InitSum /\ [][NextSum]_vars

\* A row whose cell in column j is the text of 2^(j-1), so that a sum tells
\* which columns it was taken over.
RECURSIVE Pow2(_)
Pow2(n) == IF n = 0 THEN 1 ELSE 2 * Pow2(n - 1)
WeightRow(n) == [j \in 1..n |-> IntToStr(Pow2(j - 1))]

\* map_file where the header Total sums the columns starting with Qty while
\* the headers Qty A (direct match) and Qty (COALESCE rule) claim such columns,
\* before or after Total.
InitSumShared ==
    /\ InitLoaderIdle /\ InitNumberIdle /\ InitReaderIdle /\ InitFilesIdle
    /\ mpc = "map"
    /\ srcHeaders \in SeqsUpTo({H_Qty_A, H_Qty_B, H_SKU}, MaxSumCols)
    /\ outHeaders \in SeqsUpTo({H_Total, H_Qty_A, H_Qty}, MaxOutput)
    /\ rules \in { (H_Total :> Rule("SUM_STARTS_WITH", <<H_Qty>>))
                      @@ (H_Qty :> r) :
                   r \in { Rule("COALESCE_STARTS_WITH", <<H_Qty>>),
                           Rule("COALESCE_EXACT", <<H_Qty_B>>),
                           Rule("SUM_STARTS_WITH", <<H_Qty_B>>) } }
    /\ working_map = build_source_header_map(srcHeaders)
    /\ mappings = <<>>
    /\ srcRows = <<WeightRow(Len(srcHeaders))>>
    /\ outRows = <<>>
    /\ parsed = NoParsedFile
    /\ dynamic = <<>>
    /\ standard_headers = outHeaders
    /\ column_aliases = << >>

NextSumShared == MapHeader \/ MapReturn \/ MapRow \/ MapFileReturn

SpecSumShared == InitSumShared /\ [][NextSumShared]_vars

-----------------------------------------------------------------------------
(* create_mapper_for_category(category_name, standard_headers,             *)
(* column_aliases) and ColumnMapper.__init__.                              *)

W_sum == <<"s", "u", "m">>
W_total == <<"t", "o", "t", "a", "l">>

\* a.endswith('*')
EndsWithStar(a) == a # <<>> /\ a[Len(a)] = "*"

\* [a[:-1] for a in aliases if a.endswith('*')]
starts_with_aliases(aliases) ==
    LET starred == SelectSeq(aliases, EndsWithStar)
    IN  [i \in 1..Len(starred) |-> SubSeq(starred[i], 1, Len(starred[i]) - 1)]

\* [a for a in aliases if not a.endswith('*')]
exact_aliases(aliases) ==
    LET NoStar(a) == ~EndsWithStar(a)
    IN  SelectSeq(aliases, NoStar)

\* 'sum' in standard_col.lower() or 'total' in standard_col.lower()
LooksLikeSum(standard_col) ==
    LET lower == [i \in 1..Len(standard_col) |-> Lower(standard_col[i])]
    IN  Contains(lower, W_sum) \/ Contains(lower, W_total)

\* The rules the loop body appends for one standard column, in order.
ColumnRules(standard_col, aliases) ==
    (IF starts_with_aliases(aliases) # <<>>
     THEN <<Rule(IF LooksLikeSum(standard_col) THEN "SUM_STARTS_WITH"
                 ELSE "COALESCE_STARTS_WITH",
                 starts_with_aliases(aliases))>>
     ELSE <<>>)
    \o (IF exact_aliases(aliases) # <<>>
        THEN <<Rule("COALESCE_EXACT", exact_aliases(aliases))>>
        ELSE <<>>)

\* Faulty variant: the first rule of a column is the one kept.
KeptRule_First(column_rules) == Head(column_rules)

\* {rule.standard_column: rule for rule in self.column_rules}: of the rules
\* of one column the dict keeps the last.
KeptRule(column_rules) == column_rules[Len(column_rules)]

\* self.rules_by_column of the mapper made from column_aliases
rules_by_column(aliases_by_column) ==
    [h \in {c \in DOMAIN aliases_by_column :
               ColumnRules(c, aliases_by_column[c]) # <<>>}
       |-> KeptRule(ColumnRules(h, aliases_by_column[h]))]

\* create_mapper_for_category returns the mapper
CreateMapper ==
    /\ mpc = "create"
    /\ rules' = rules_by_column(column_aliases)
    /\ mpc' = "map"
    /\ UNCHANGED <<srcHeaders, outHeaders, working_map, mappings, srcRows,
                   outRows, parsed, dynamic, standard_headers, column_aliases,
                   lvars, nvars, rvars, fvars>>

A_Qty_star == <<"Q", "t", "y", "*">>
A_Qty_B_star == <<"Q", "t", "y", " ", "B", "*">>
H_qty_padded == <<" ", "q", "t", "y", " ">>

\* Alias lists: wildcard only, exact only, and both kinds in either order.
AliasLists ==
    { <<A_Qty_star>>, <<H_SKU>>, <<A_Qty_star, H_SKU>>, <<H_SKU, A_Qty_B_star>> }

\* A mapper made from column_aliases, then a mapping pass.  The aliases are
\* configured for the headers Qty and Total, or under a name that differs
\* from Qty in letter case and surrounding blanks.
InitAliases ==
    /\ InitLoaderIdle /\ InitNumberIdle /\ InitReaderIdle /\ InitFilesIdle
    /\ mpc = "create"
    /\ srcHeaders \in SeqsUpTo({H_SKU, H_Qty_A, H_Qty_B}, MaxSumCols)
    /\ outHeaders \in SeqsUpTo({H_Qty, H_Total}, MaxOutput)
    /\ rules = << >>
    /\ working_map = build_source_header_map(srcHeaders)
    /\ mappings = <<>>
    /\ srcRows = <<>>
    /\ outRows = <<>>
    /\ parsed = NoParsedFile
    /\ dynamic = <<>>
    /\ standard_headers = outHeaders
    /\ column_aliases \in { [h \in hs |-> al] :
                              hs \in {{}, {H_Qty}, {H_Total}, {H_Qty, H_Total},
                                      {H_qty_padded}},
                              al \in AliasLists }

NextAliases == CreateMapper \/ MapHeader \/ MapReturn

SpecAliases == InitAliases /\ [][NextAliases]_vars

\* Rules whose later replacements may match columns left of the columns of
\* their earlier ones.
AliasRulePool ==
    { Rule("COALESCE_EXACT", <<H_Qty_B, H_SKU, H_Qty_A>>),
      Rule("COALESCE_STARTS_WITH", <<H_Total, H_Qty>>),
      Rule("COALESCE_STARTS_WITH", <<H_Qty_B, H_Qty>>),
      Rule("COALESCE_STARTS_WITH", <<H_SKU, H_Qty>>) }

\* A mapping pass over headers Qty and Total, which have a direct match in no
\* or few source rows, and SKU, which claims a column by direct match.
InitCoalesce ==
    /\ InitLoaderIdle /\ InitNumberIdle /\ InitReaderIdle /\ InitFilesIdle
    /\ mpc = "map"
    /\ srcHeaders \in SeqsUpTo({H_SKU, H_Qty_A, H_Qty_B, H_Total}, MaxSource)
    /\ outHeaders \in SeqsUpTo(OutputHeaderPool, MaxOutput)
    /\ rules \in { [h \in hs |-> r] : hs \in SUBSET {H_Qty, H_Total},
                                      r \in AliasRulePool }
    /\ working_map = build_source_header_map(srcHeaders)
    /\ mappings = <<>>
    /\ srcRows = <<>>
    /\ outRows = <<>>
    /\ parsed = NoParsedFile
    /\ dynamic = <<>>
    /\ standard_headers = outHeaders
    /\ column_aliases = << >>

NextCoalesce == MapHeader \/ MapReturn

SpecCoalesce == InitCoalesce /\ [][NextCoalesce]_vars

-----------------------------------------------------------------------------
(* parse_number.  The argument is None or a text over digits, separators,  *)
(* sign, '%', letters and blanks; a finite number is units / 10^scale.     *)

NumRaise(exc) == [kind |-> "raise", neg |-> FALSE, units |-> 0, scale |-> 0, exc |-> exc]

\* The number units / 10^scale without trailing zeros of the fraction.
RECURSIVE Finite(_, _, _)
Finite(neg, units, scale) ==
    IF scale > 0 /\ units % 10 = 0 THEN Finite(neg, units \div 10, scale - 1)
    ELSE [kind |-> "number", neg |-> neg /\ units # 0, units |-> units,
          scale |-> scale, exc |-> ""]

\* The tokens parse_number takes for a missing value.
NullTokens == { <<"-">>, <<"N", "/", "A">>, <<"n", "/", "a">>, <<"#", "N", "/", "A">> }

\* re.sub(r'[Rp\s\$...]', '', value_str)
CurrencyChars == {"R", "p", " ", "$"}

\* The text handed to Decimal, after the separator convention is resolved.
Standardized(value_str) ==
    LET dot_count == Count(value_str, ".")
        comma_count == Count(value_str, ",")
    IN  IF \/ dot_count > 1
           \/ /\ dot_count = 1 /\ comma_count = 1
              /\ IndexOf(value_str, ".") < IndexOf(value_str, ",")
        THEN Replace(Remove(value_str, "."), ",", ".")
        ELSE IF comma_count > 1 \/ (comma_count = 1 /\ dot_count = 0)
        THEN IF comma_count = 1 /\ Len(value_str) - IndexOf(value_str, ",") = 3
             THEN Remove(value_str, ",")
             ELSE Replace(value_str, ",", ".")
        ELSE value_str

\* try: result = Decimal(value_str) ... except InvalidOperation: return None.
\* int(result) raises ValueError for a NaN and OverflowError for an infinity.
Converted(value_str, is_percentage) ==
    LET dec == DecimalOf(value_str)
    IN  IF dec.kind = "invalid" THEN NumNull
        ELSE IF dec.kind = "nan" THEN NumRaise("ValueError")
        ELSE IF dec.kind = "inf" THEN NumRaise("OverflowError")
        ELSE Finite(dec.neg, dec.units,
                    dec.scale + (IF is_percentage THEN 2 ELSE 0))

parse_number(v) ==
    IF v = PyNone THEN NumNull
    ELSE IF Strip(v) = <<>> THEN NumNull
    ELSE IF Strip(v) \in NullTokens THEN NumNull
    ELSE LET IsKept(ch) == ch \notin CurrencyChars
             bare == SelectSeq(Strip(v), IsKept)
         IN  Converted(Standardized(Remove(bare, "%")), Count(bare, "%") > 0)

\* One call of parse_number.
ParseNumber ==
    /\ npc = "call"
    /\ number' = parse_number(numArg)
    /\ npc' = IF number'.kind = "raise" THEN "raised" ELSE "returned"
    /\ UNCHANGED <<numArg, lvars, mvars, rvars, fvars>>

MaxNumLen == 5      \* longest text made of digits and separators

SeparatorTexts == SeqsUpTo({"1", "2", ",", "."}, MaxNumLen)

T_DotThousands == <<"1", ".", "2", "3", "4", ".", "5", "6", "7", ",", "8", "9">>
T_CommaThousands == <<"1", ",", "2", "3", "4", ",", "5", "6", "7", ".", "8", "9">>

OtherValues ==
    { PyNone, <<>>, <<" ">>, <<"-">>, <<"N", "/", "A">>, <<"#", "N", "/", "A">>,
      T_DotThousands, T_CommaThousands,
      <<"1", ",", "2", "3", "4">>, <<"N", "a", "N">>, <<"I", "n", "f", "i", "n", "i", "t", "y">>,
      <<"-", "i", "n", "f">>, <<"a", "b", "c">>, <<"5", "0", "%">>, <<"R", "p", " ", "1", ".", "0", "0", "0">>, <<" ", "7", " ">>, <<"-", "1", ",", "5">> }

InitNumber ==
    /\ InitLoaderIdle /\ InitMapperIdle
    /\ npc = "call"
    /\ numArg \in SeparatorTexts \cup OtherValues
    /\ number = NumNull
    /\ InitReaderIdle /\ InitFilesIdle

NextNumber == ParseNumber

SpecNumber == InitNumber /\ [][NextNumber]_vars

T_TenAndHalf == <<"1", "0", ".", "5">>

\* One cell read both ways: as the only cell under Qty A, summed for the
\* header Total by map_file, and as the argument of parse_number.
InitReading ==
    /\ InitLoaderIdle
    /\ mpc = "map"
    /\ srcHeaders = <<H_Qty_A>>
    /\ outHeaders = <<H_Total>>
    /\ rules = (H_Total :> Rule("SUM_STARTS_WITH", <<H_Qty>>))
    /\ working_map = build_source_header_map(srcHeaders)
    /\ mappings = <<>>
    /\ numArg \in SeparatorTexts \cup OtherValues \cup {T_TenAndHalf}
    /\ srcRows = << <<numArg>> >>
    /\ outRows = <<>>
    /\ parsed = NoParsedFile
    /\ dynamic = <<>>
    /\ standard_headers = outHeaders
    /\ column_aliases = << >>
    /\ npc = "call"
    /\ number = NumNull
    /\ InitReaderIdle /\ InitFilesIdle

NextReading ==
    MapHeader \/ MapReturn \/ MapRow \/ MapFileReturn \/ ParseNumber

SpecReading == InitReading /\ [][NextReading]_vars

-----------------------------------------------------------------------------
(* The entry points (main.py).  Paths and brand codes are sequences of     *)
(* characters; a move is recorded as the request made of the bucket.       *)

Upper(ch) ==
    IF \E i \in 1..Len(LowerLetters) : LowerLetters[i] = ch
    THEN Letters[CHOOSE i \in 1..Len(LowerLetters) : LowerLetters[i] = ch]
    ELSE ch

ToLower(str) == [i \in 1..Len(str) |-> Lower(str[i])]
ToUpper(str) == [i \in 1..Len(str) |-> Upper(str[i])]

\* str.split(ch)
RECURSIVE Split(_, _)
Split(str, ch) ==
    IF Count(str, ch) = 0 THEN <<str>>
    ELSE LET i == IndexOf(str, ch)
         IN  <<SubSeq(str, 1, i - 1)>> \o Split(SubSeq(str, i + 1, Len(str)), ch)

\* Path(name).stem for a name without "/": the name up to its last dot, when
\* that dot is neither the first nor the last character.
stem(name) ==
    LET dots == {i \in 1..Len(name) : name[i] = "."}
        last == CHOOSE i \in dots : \A j \in dots : j <= i
    IN  IF name = <<".">> THEN <<>>
        ELSE IF dots # {} /\ 1 < last /\ last < Len(name)
             THEN SubSeq(name, 1, last - 1)
             ELSE name

A_archive == <<"a", "r", "c", "h", "i", "v", "e", "/">>
A_failed == <<"f", "a", "i", "l", "e", "d", "/">>

\* blob_path.startswith(("archive/", "failed/", "."))
InSpecialFolder(path) ==
    \/ StartsWith(path, A_archive)
    \/ StartsWith(path, A_failed)
    \/ StartsWith(path, <<".">>)

\* if not x, for x None or a text
Falsy(x) == x = PyNone \/ x = <<>>

extract_info_from_path(path) ==
    IF InSpecialFolder(path)
    THEN [category_name |-> PyNone, brand_code |-> PyNone, filename |-> <<>>]
    ELSE LET parts == Split(path, "/")
         IN  IF Len(parts) < 2
             THEN [category_name |-> PyNone, brand_code |-> PyNone,
                   filename |-> path]
             ELSE LET category_name == parts[1]
                      filename == parts[Len(parts)]
                      words == Split(filename, " ")
                      word == IF StartsWith(category_name, BA_Dash)
                                   /\ Len(words) >= 2
                              THEN words[2] ELSE words[1]
                  IN  [category_name |-> category_name,
                       brand_code |-> IF Count(word, ".") > 0
                                      THEN stem(word) ELSE word,
                       filename |-> filename]

\* get_category: the exact name first, then the name whatever its case.
get_category(name) ==
    IF \E c \in Categories : c.name = name
    THEN CHOOSE c \in Categories : c.name = name
    ELSE IF \E c \in Categories : ToLower(c.name) = ToLower(name)
         THEN CHOOSE c \in Categories : ToLower(c.name) = ToLower(name)
         ELSE NoCategory

is_valid_brand_code(code) == ~Falsy(code) /\ code = ToUpper(code)

move_to_archive(path) == [source |-> path, destination |-> A_archive \o path]
move_to_failed(path) == [source |-> path, destination |-> A_failed \o path]

ReturnDict(success, error) ==
    [kind |-> "result", success |-> success, error |-> error]

B_GS == <<"G", "S">>
B_Toko == <<"T", "o", "k", "o">>

\* What detect_brand_from_filename may give: no brand, or a brand text.
FilenameBrands == {PyNone, B_GS, B_Toko}
\* What detect_brand_from_data and extract_brand_from_data may give.
DataBrands == {PyNone, B_GS, B_Toko}

\* The brand the fallbacks of process_file settle on, None when none does.
DetectedBrand(filename_brand, detected_brand, extracted_brand) ==
    IF ~Falsy(filename_brand) THEN filename_brand
    ELSE IF legacy_detection
         THEN IF ~Falsy(detected_brand) THEN detected_brand
              ELSE extracted_brand
         ELSE PyNone

bvars == <<blob_paths, blob_i, all_headers, batch_rows, processed_files,
           failed_files, deleted_all, batch_loaded, parse_log>>

\* move_to_failed(bucket_name, blob_path); return {"success": False, ...}
FileFailed(error) ==
    /\ moves' = Append(moves, move_to_failed(blob_path))
    /\ run_result' = ReturnDict(FALSE, error)
    /\ ppc' = "done"

\* process_file up to the download: the path is taken apart and the category
\* looked up.
ProcessFile(path) ==
    /\ ppc = "idle"
    /\ blob_path' = path
    /\ LET info == extract_info_from_path(path)
       IN  IF Falsy(info.category_name)
           THEN /\ run_result' = [kind |-> "skipped", success |-> FALSE,
                                  error |-> "special_folder"]
                /\ ppc' = "done"
                /\ UNCHANGED <<moves, file_brand>>
           ELSE IF get_category(info.category_name) = NoCategory
           THEN /\ moves' = Append(moves, move_to_failed(path))
                /\ run_result' = ReturnDict(FALSE, "Unknown category")
                /\ ppc' = "done"
                /\ UNCHANGED file_brand
           ELSE /\ file_brand' = info.brand_code
                /\ ppc' = "download"
                /\ UNCHANGED <<moves, run_result>>
    /\ UNCHANGED <<bigquery_enabled, legacy_detection, bvars,
                   lvars, mvars, nvars, rvars>>

\* download_blob_as_bytes gives bytes, no bytes, or None
ProcessDownload ==
    /\ ppc = "download"
    /\ \E file_content \in {"bytes", "empty", "None"} :
          IF file_content = "bytes"
          THEN ppc' = "parse" /\ UNCHANGED <<moves, run_result>>
          ELSE FileFailed("Failed to download file")
    /\ UNCHANGED <<blob_path, file_brand, bigquery_enabled, legacy_detection,
                   bvars, lvars, mvars, nvars, rvars>>

\* parse_file gives a ParsedFile that is valid or not
ProcessParse ==
    /\ ppc = "parse"
    /\ \E valid \in BOOLEAN :
          IF valid
          THEN ppc' = "brand" /\ UNCHANGED <<moves, run_result>>
          ELSE FileFailed("No data found")
    /\ UNCHANGED <<blob_path, file_brand, bigquery_enabled, legacy_detection,
                   bvars, lvars, mvars, nvars, rvars>>

\* A brand code that is not all upper case is replaced by a detected one.
ProcessBrand ==
    /\ ppc = "brand"
    /\ IF is_valid_brand_code(file_brand)
       THEN ppc' = "load" /\ UNCHANGED <<moves, run_result, file_brand>>
       ELSE \E filename_brand \in FilenameBrands,
               detected_brand \in DataBrands, extracted_brand \in DataBrands :
               LET found == DetectedBrand(filename_brand, detected_brand,
                                          extracted_brand)
               IN  IF Falsy(found)
                   THEN /\ FileFailed("Could not detect valid brand code")
                        /\ UNCHANGED file_brand
                   ELSE /\ file_brand' = found
                        /\ ppc' = "load"
                        /\ UNCHANGED <<moves, run_result>>
    /\ UNCHANGED <<blob_path, bigquery_enabled, legacy_detection,
                   bvars, lvars, mvars, nvars, rvars>>

\* loader.upload gives success or not; without BigQuery nothing is loaded.
ProcessLoad ==
    /\ ppc = "load"
    /\ IF bigquery_enabled
       THEN \E success \in BOOLEAN :
               IF success
               THEN ppc' = "archive" /\ UNCHANGED <<moves, run_result>>
               ELSE FileFailed("BigQuery upload failed")
       ELSE ppc' = "archive" /\ UNCHANGED <<moves, run_result>>
    /\ UNCHANGED <<blob_path, file_brand, bigquery_enabled, legacy_detection,
                   bvars, lvars, mvars, nvars, rvars>>

\* move_to_archive(bucket_name, blob_path); return {"success": True, ...}
ProcessArchive ==
    /\ ppc = "archive"
    /\ moves' = Append(moves, move_to_archive(blob_path))
    /\ run_result' = ReturnDict(TRUE, "")
    /\ ppc' = "done"
    /\ UNCHANGED <<blob_path, file_brand, bigquery_enabled, legacy_detection,
                   bvars, lvars, mvars, nvars, rvars>>

Dash_SHO == BA_Dash \o <<" ", "S", "H", "O">>
Produk_SHO == BA_Produk \o <<" ", "S", "H", "O">>

P_dash == Dash_SHO \o <<"/", "S", "H", "O", " ", "G", "S", " ", "a", ".", "c", "s", "v">>
P_dash_mixed == Dash_SHO \o <<"/", "B", "i", "s", "n", "i", "s", " ", "a", "n", "a", "l", "i", "s", "i", "s", ".", "c", "s", "v">>
P_dash_lower == ToLower(Dash_SHO) \o <<"/", "S", "H", "O", " ", "B", "R", " ", "a", ".", "c", "s", "v">>
P_produk == Produk_SHO \o <<"/", "G", "S", ".", "c", "s", "v">>
P_produk_mixed == Produk_SHO \o <<"/", "T", "o", "k", "o", " ", "a", ".", "c", "s", "v">>
P_unknown == <<"L", "a", "i", "n", "/", "G", "S", " ", "a", ".", "c", "s", "v">>
P_root == <<"G", "S", " ", "a", ".", "c", "s", "v">>
P_dot == <<".", "t", "m", "p", "/", "G", "S", " ", "a", ".", "c", "s", "v">>

\* The paths process_file is called with.
BlobPathPool ==
    { P_dash, P_dash_mixed, P_dash_lower, P_produk, P_produk_mixed, P_unknown,
      P_root, P_dot, A_archive \o P_dash, A_failed \o P_produk }

InitProcess ==
    /\ InitLoaderIdle /\ InitMapperIdle /\ InitNumberIdle /\ InitReaderIdle
    /\ ppc = "idle"
    /\ blob_path = <<>>
    /\ file_brand = <<>>
    /\ moves = <<>>
    /\ run_result = NoRun
    /\ bigquery_enabled \in BOOLEAN
    /\ legacy_detection \in BOOLEAN
    /\ blob_paths = <<>>
    /\ blob_i = 0
    /\ all_headers = <<"None">>
    /\ batch_rows = <<>>
    /\ processed_files = <<>>
    /\ failed_files = <<>>
    /\ deleted_all = FALSE
    /\ batch_loaded = NotLoaded
    /\ parse_log = <<>>

ProcessFileCalled == \E path \in BlobPathPool : ProcessFile(path)

NextProcess ==
    \/ ProcessFileCalled
    \/ ProcessDownload \/ ProcessParse \/ ProcessBrand \/ ProcessLoad
    \/ ProcessArchive

SpecProcess == InitProcess /\ [][NextProcess]_vars

-----------------------------------------------------------------------------
(* batch_process_category (main.py).                                       *)

MaxBatchFiles == 2  \* most files a listing holds
MaxBatchRows == 2   \* most rows of a parsed file

\* The data files that may lie in the folder of a category.
FolderFiles(name) ==
    { name \o <<"/", "G", "S", " ", "a", ".", "c", "s", "v">>, name \o <<"/", "B", "R", " ", "b", ".", "x", "l", "s", "x">>, name \o <<"/", "T", "o", "k", "o", " ", "c", ".", "c", "s", "v">> }

\* list_blobs_in_folder: the files of the folder, each once.
Listings(name) ==
    { l \in SeqsUpTo(FolderFiles(name), MaxBatchFiles) :
        \A i, j \in 1..Len(l) : i # j => l[i] # l[j] }

\* What parse_file makes of a downloaded file.
BatchParsedFiles ==
    [valid : {TRUE}, headers : { <<"sku">>, <<"sku", "qty">> },
     nrows : 1..MaxBatchRows]
    \cup {[valid |-> FALSE, headers |-> <<>>, nrows |-> 0]}

\* The rows of a parsed file after row["_brand_code"] = brand_code.
BrandedRows(path, parsed_file, code) ==
    [k \in 1..parsed_file.nrows |-> [src |-> path, n |-> k, brand |-> code]]

\* The brand code after the fallbacks of batch_process_category.
BatchBrand(code, filename_brand, detected_brand, extracted_brand) ==
    IF is_valid_brand_code(code) THEN code
    ELSE IF ~Falsy(filename_brand) THEN filename_brand
    ELSE IF legacy_detection
         THEN IF ~Falsy(detected_brand) THEN detected_brand
              ELSE IF ~Falsy(extracted_brand) THEN extracted_brand
              ELSE code
         ELSE code

\* Faulty variant: the headers of the latest parsed file are kept.
HeadersAfter_Latest(headers, parsed_headers) == parsed_headers

\* if all_headers is None: all_headers = parsed.headers
HeadersAfter(headers, parsed_headers) ==
    IF headers = PyNone THEN parsed_headers ELSE headers

\* loader.delete_all_data(category.bigquery_table)
delete_all_data == deleted_all' = TRUE

\* loader.batch_upload(all_rows, all_headers, category)
batch_upload(rows, headers) ==
    batch_loaded' = [called |-> TRUE, rows |-> rows, headers |-> headers]

Logged(path, outcome, parsed_file, code) ==
    [path |-> path, outcome |-> outcome, headers |-> parsed_file.headers,
     nrows |-> parsed_file.nrows, brand |-> code]

\* failed_files.append(...); move_to_failed(bucket_name, blob_path); continue
BatchFileFailed(path, outcome, parsed_file, error) ==
    /\ failed_files' = Append(failed_files, [path |-> path, error |-> error])
    /\ moves' = Append(moves, move_to_failed(path))
    /\ parse_log' = Append(parse_log, Logged(path, outcome, parsed_file, PyNone))
    /\ UNCHANGED <<batch_rows, all_headers, processed_files>>

\* batch_process_category up to the loop: category lookup and listing.
BatchProcessCategory(name) ==
    /\ ppc = "b_idle"
    /\ IF get_category(name) = NoCategory
       THEN /\ run_result' = ReturnDict(FALSE, "Unknown category")
            /\ ppc' = "done"
            /\ UNCHANGED blob_paths
       ELSE \E listing \in Listings(name) :
               /\ blob_paths' = listing
               /\ IF listing = <<>>
                  THEN /\ run_result' = ReturnDict(TRUE, "")
                       /\ ppc' = "done"
                  ELSE /\ ppc' = "b_file"
                       /\ UNCHANGED run_result
    /\ UNCHANGED <<blob_path, file_brand, moves, bigquery_enabled,
                   legacy_detection, blob_i, all_headers, batch_rows,
                   processed_files, failed_files, deleted_all, batch_loaded,
                   parse_log, lvars, mvars, nvars, rvars>>

\* One pass of the loop over blob_paths.
BatchFile ==
    /\ ppc = "b_file"
    /\ blob_i < Len(blob_paths)
    /\ LET path == blob_paths[blob_i + 1]
           NoFile == [valid |-> FALSE, headers |-> <<>>, nrows |-> 0]
       IN
       /\ blob_path' = path
       /\ blob_i' = blob_i + 1
       /\ \E file_content \in {"bytes", "empty", "None"},
             parsed_file \in BatchParsedFiles,
             filename_brand \in FilenameBrands,
             detected_brand \in DataBrands, extracted_brand \in DataBrands :
             LET code == BatchBrand(extract_info_from_path(path).brand_code,
                                    filename_brand, detected_brand,
                                    extracted_brand)
             IN
             IF file_content # "bytes"
             THEN /\ BatchFileFailed(path, "download", NoFile, "Download failed")
                  /\ UNCHANGED file_brand
             ELSE IF ~parsed_file.valid
             THEN /\ BatchFileFailed(path, "parse", parsed_file, "Parse failed")
                  /\ UNCHANGED file_brand
             ELSE IF ~is_valid_brand_code(code)
             THEN /\ BatchFileFailed(path, "brand", parsed_file,
                                     "Invalid brand code")
                  /\ file_brand' = code
             ELSE /\ file_brand' = code
                  /\ batch_rows' =
                        batch_rows \o BrandedRows(path, parsed_file, code)
                  /\ all_headers' = HeadersAfter(all_headers, parsed_file.headers)
                  /\ processed_files' = Append(processed_files, path)
                  /\ parse_log' = Append(parse_log,
                                         Logged(path, "parsed", parsed_file, code))
                  /\ UNCHANGED <<failed_files, moves>>
    /\ UNCHANGED <<ppc, run_result, bigquery_enabled, legacy_detection,
                   blob_paths, deleted_all, batch_loaded,
                   lvars, mvars, nvars, rvars>>

\* After the loop: nothing to load, or the table's data is deleted.
BatchDelete ==
    /\ ppc = "b_file"
    /\ blob_i = Len(blob_paths)
    /\ IF batch_rows = <<>>
       THEN /\ run_result' = ReturnDict(FALSE, "No valid data in any files")
            /\ ppc' = "done"
            /\ UNCHANGED deleted_all
       ELSE /\ delete_all_data
            /\ ppc' = "b_upload"
            /\ UNCHANGED run_result
    /\ UNCHANGED <<blob_path, file_brand, moves, bigquery_enabled,
                   legacy_detection, blob_paths, blob_i, all_headers,
                   batch_rows, processed_files, failed_files, batch_loaded,
                   parse_log, lvars, mvars, nvars, rvars>>

\* The load of all rows, then the move of every parsed file.
BatchUpload ==
    /\ ppc = "b_upload"
    /\ batch_upload(batch_rows, all_headers)
    /\ \E success \in BOOLEAN :
          IF success
          THEN /\ moves' = moves \o [k \in 1..Len(processed_files) |->
                                        move_to_archive(processed_files[k])]
               /\ run_result' = ReturnDict(TRUE, "")
          ELSE /\ moves' = moves \o [k \in 1..Len(processed_files) |->
                                        move_to_failed(processed_files[k])]
               /\ run_result' = ReturnDict(FALSE, "Batch upload failed")
    /\ ppc' = "done"
    /\ UNCHANGED <<blob_path, file_brand, bigquery_enabled, legacy_detection,
                   blob_paths, blob_i, all_headers, batch_rows,
                   processed_files, failed_files, deleted_all, parse_log,
                   lvars, mvars, nvars, rvars>>

\* The category names batch_process_category is called with.
BatchNames == {Produk_SHO, ToLower(Produk_SHO), <<"L", "a", "i", "n">>}

InitBatch ==
    /\ InitLoaderIdle /\ InitMapperIdle /\ InitNumberIdle /\ InitReaderIdle
    /\ ppc = "b_idle"
    /\ blob_path = <<>>
    /\ file_brand = <<>>
    /\ moves = <<>>
    /\ run_result = NoRun
    /\ bigquery_enabled = TRUE
    /\ legacy_detection \in BOOLEAN
    /\ blob_paths = <<>>
    /\ blob_i = 0
    /\ all_headers = PyNone
    /\ batch_rows = <<>>
    /\ processed_files = <<>>
    /\ failed_files = <<>>
    /\ deleted_all = FALSE
    /\ batch_loaded = NotLoaded
    /\ parse_log = <<>>

BatchCalled == \E name \in BatchNames : BatchProcessCategory(name)

NextBatch == BatchCalled \/ BatchFile \/ BatchDelete \/ BatchUpload

SpecBatch == InitBatch /\ [][NextBatch]_vars

-----------------------------------------------------------------------------
(* Properties of the resource provisioner, under SpecProvision.            *)

IsPrefix(a, b) == Len(a) <= Len(b) /\ SubSeq(b, 1, Len(a)) = a

EnsureReturned(c) ==
    op[c] = "ensure_table_exists" /\ pc[c] = "done" /\ result[c].kind = "return"

\* ensure_table_exists of caller c returns in this step.
EnsureReturns(c) ==
    /\ op[c] = "ensure_table_exists"
    /\ pc[c] # "done"
    /\ pc'[c] = "done"
    /\ result'[c].kind = "return"

\* C3: two callers run ensure_table_exists concurrently for the same missing
\* table, with a warehouse whose answers reflect its current state.  Under
\* every interleaving, when both calls have ended, both have returned the table
\* (neither raised), and the table's columns are the union of the columns the
\* two callers required.
C3_RaceReturnsUnion ==
    (env = {} /\ ~tblExists0 /\ \A c \in Callers : pc[c] = "done")
    => /\ \A c \in Callers : EnsureReturned(c) /\ result[c].table # <<>>
       /\ tblExists
       /\ FieldNames(tblSchema) = UNION {FieldNames(Required(c)) : c \in Callers}

\* Both callers found the table missing, one lost the race to create it (its
\* create met a Conflict), they required different columns, both have ended.
C3_Witness ==
    /\ env = {} /\ ~tblExists0
    /\ \A c \in Callers : pc[c] = "done"
    /\ \E c \in Callers : attempt[c] = 1
    /\ Required("c1") # Required("c2")

\* C4: whenever ensure_table_exists returns normally, by whichever path, the
\* table's schema has every column of the schema the caller required.
C4_ReturnHasRequired ==
    [][\A c \in Callers :
          EnsureReturns(c)
          => FieldNames(Required(c)) \subseteq FieldNames(tblSchema')]_vars

\* C5: under every interleaving of ensure_table_exists calls and every warehouse
\* behaviour, no step shrinks, reorders or retypes the schema of the table.  A
\* step that changes the schema is an update by a caller that read the current
\* schema; it leaves the schema as it was, followed by exactly the columns this
\* caller requires and the table lacked, of which there is at least one.  No
\* caller reaches the update with nothing missing from the schema it read.
C5_SchemaOnlyGrows ==
    [][/\ tblExists => (tblExists' /\ IsPrefix(tblSchema, tblSchema'))
       /\ (tblExists /\ tblSchema' # tblSchema)
          => \E c \in Callers :
                /\ pc[c] = "et_update"
                /\ NewFields(tblSchema, Required(c)) # <<>>
                /\ tblSchema' = tblSchema \o NewFields(tblSchema, Required(c))
       /\ \A c \in Callers :
             pc'[c] = "et_update"
             => NewFields(handle'[c], Required(c)) # <<>>]_vars

\* Two callers read the same schema and both went on to update it: the first
\* update added its columns, the second one, through the stale handle, was
\* refused and changed nothing.
C5_Witness ==
    /\ \E c \in Callers :
          pc[c] = "done" /\ result[c].exc = "PreconditionFailed"
    /\ \E c \in Callers :
          /\ EnsureReturned(c)
          /\ result[c].table = tblSchema
          /\ Len(tblSchema) = MaxEnsureCols + 1

-----------------------------------------------------------------------------
(* Properties of one upload, under Spec and SpecLive.                      *)

\* The caller's thread keeps running: every sleep of a back-off ends.
SpecLive == Init /\ [][Next]_vars /\ WF_vars(Next)

\* Number of batches streaming_insert makes of n rows.
Chunks(n) == (n + BatchSize - 1) \div BatchSize
MaxChunks == Chunks(MaxRows + 1)

\* Warehouse calls upload may still make, at most, from each of its positions.
RankInsert(c) ==
    3 * (InsertMaxRetries - attempt[c])
    + 3 * InsertMaxRetries * (Chunks(Len(rowsToInsert[c]) - off[c]) - 1)
RankHeader == 1 + InsertMaxRetries + 3 * InsertMaxRetries * MaxChunks
RankDelete(a) == (DeleteMaxRetries - a) + RankHeader
RankLookup(a) == 3 * (EnsureMaxRetries - a) + 1 + RankDelete(0)
Rank(c) ==
    CASE pc[c] = "idle" -> 3 + RankLookup(0)
      [] pc[c] = "ds_get" -> 2 + RankLookup(0)
      [] pc[c] = "ds_create" -> 1 + RankLookup(0)
      [] pc[c] = "et_lookup" -> RankLookup(attempt[c])
      [] pc[c] = "et_update" -> RankLookup(attempt[c]) - 1
      [] pc[c] = "et_create" -> RankLookup(attempt[c]) - 2
      [] pc[c] = "et_final" -> 1 + RankDelete(0)
      [] pc[c] = "del" -> RankDelete(attempt[c])
      [] pc[c] = "hdr" -> RankHeader
      [] pc[c] = "si_get" -> RankHeader - 1 - attempt[c]
      [] pc[c] = "ins" -> RankInsert(c)
      [] pc[c] = "ins_refresh" -> RankInsert(c) - 1
      [] pc[c] = "ins_refresh_exc" -> RankInsert(c) - 2
      [] OTHER -> 0

\* upload has returned (success, info): no exception has left it.
UploadReturned(c) ==
    /\ result[c].kind = "return"
    /\ result[c].success \in BOOLEAN
    /\ result[c].info.tag \in {"invalid", "loaded", "failed"}
    /\ result[c].info.tag # "loaded" => ~result[c].success

\* C6: whatever the warehouse answers to each call (success, not found,
\* conflict, rate limit, row rejections, another exception), upload ends: every
\* call it makes lowers a non-negative measure that starts at a fixed bound, it
\* does reach its end, and there it has returned a (success, info) pair and not
\* let an exception out.
C6_UploadTerminates ==
    /\ [](Rank(Solo) >= 0 /\ Rank(Solo) <= 3 + RankLookup(0))
    /\ [][Rank(Solo)' < Rank(Solo)]_vars
    /\ <>(pc[Solo] = "done")
    /\ [](pc[Solo] = "done" => UploadReturned(Solo))

\* The last get_table of streaming_insert's retries was answered NotFound; the
\* exception was caught by upload and returned as a failure.
C6_Witness ==
    /\ pc[Solo] = "done"
    /\ result[Solo].kind = "return"
    /\ result[Solo].info.tag = "failed"
    /\ result[Solo].info.error = "NotFound"
    /\ attempt[Solo] = InsertMaxRetries - 1
    /\ rowsToInsert[Solo] # <<>>

\* Row-level rejections among the insert errors.
Rejections(errs) == \E k \in 1..Len(errs) : errs[k].errors = "invalid"

\* C7: a batch whose insert returns rejections of rows (not "not found") has
\* them appended to the error list, and streaming_insert goes on with the next
\* batch, or returns if this was the last one; it returns only when every
\* batch has been attempted.  When streaming_insert returns, upload reports
\* success exactly if the error list is empty, with that list in its info;
\* upload never reports success with a non-empty error list.
C7_RejectionsCollected ==
    /\ [][\A c \in Callers :
            (/\ pc[c] = "ins"
             /\ errors'[c] # errors[c]
             /\ errors'[c] # errors[c] \o NotFoundErrors(Len(Batch(c))))
            => /\ \E e \in InvalidErrors(Len(Batch(c))) : errors'[c] = errors[c] \o e
               /\ totalInserted'[c] = totalInserted[c]
               /\ IF off[c] + BatchSize < Len(rowsToInsert[c])
                  THEN /\ pc'[c] = "ins"
                       /\ off'[c] = off[c] + BatchSize
                       /\ attempt'[c] = 0
                  ELSE /\ pc'[c] = "done"
                       /\ result'[c].info.tag = "loaded"]_vars
    /\ [](\A c \in Callers :
            (pc[c] = "done" /\ op[c] = "upload")
            => /\ result[c].info.tag = "loaded"
                  => /\ off[c] >= Len(rowsToInsert[c])
                     /\ result[c].info.errors = errors[c]
                     /\ result[c].success <=> (errors[c] = <<>>)
               /\ result[c].success
                  => (result[c].info.tag = "loaded" /\ errors[c] = <<>>))

\* The first batch had a row rejected and streaming_insert is at the next one.
C7_Witness ==
    /\ pc[Solo] = "ins"
    /\ off[Solo] = BatchSize
    /\ errors[Solo] # <<>>
    /\ Rejections(errors[Solo])
    /\ Len(rowsToInsert[Solo]) > BatchSize

\* C8: a batch is given up for NotFound only at its last attempt: as long as
\* fewer than max_retries attempts of the batch were answered "not found", no
\* NotFound failure is returned by upload, also when it is the refresh of the
\* table handle between two attempts that finds the table not visible yet.
C8_LagAbsorbed ==
    [][\A c \in Callers :
          (/\ pc[c] \in {"ins", "ins_refresh", "ins_refresh_exc"}
           /\ pc'[c] = "done"
           /\ result'[c].info.error = "NotFound")
          => attempt[c] = InsertMaxRetries - 1]_vars

\* C9: no batch is written more than max_retries times, and a batch whose last
\* attempt too is answered "not found", by an exception or by insert errors,
\* ends the upload there with success = False: no later batch is attempted.
C9_ExhaustionIsHard ==
    /\ [](\A c \in Callers :
            pc[c] \in {"ins", "ins_refresh", "ins_refresh_exc"}
            => attempt[c] < InsertMaxRetries)
    /\ [][\A c \in Callers :
            (/\ pc[c] = "ins"
             /\ attempt[c] = InsertMaxRetries - 1
             /\ \/ errors'[c] = errors[c] \o NotFoundErrors(Len(Batch(c)))
                \/ pc'[c] = "done" /\ result'[c].info.error = "NotFound")
            => (pc'[c] = "done" /\ ~result'[c].success)]_vars

\* C10: an upload whose delete met the rate limit at every attempt reports
\* success = False.
C10_DeleteExhaustionFails ==
    \A c \in Callers :
        (pc[c] = "done" /\ op[c] = "upload" /\ delReturn[c].via = "exhausted")
        => ~result[c].success

-----------------------------------------------------------------------------
(* Snapshot replacement, under SpecRepeat.                                 *)

OtherBrands(b, code) ==
    LET keep == {r \in DOMAIN b : RowGet(r, BrandCol) \notin {code, HeaderMarker}}
    IN  [r \in keep |-> b[r]]

\* C1: for a snapshot category, after an upload for a brand and then a second
\* upload for the same brand, both reporting success, the table's rows of the
\* brand are exactly the data rows of the second upload, and the rows other
\* brands had before the first upload are as they were.
C1_SnapshotReplaces ==
    (/\ Len(runs) = 2
     /\ pc[Solo] = "done"
     /\ result[Solo].success
     /\ runs[1].success
     /\ is_snapshot(runCategory)
     /\ runs[1].brand = runs[2].brand)
    => /\ RowsOf(tblRows, brand[Solo])
          = SeqToBag(data_rows(file[Solo], brand[Solo]))
       /\ OtherBrands(tblRows, brand[Solo]) = OtherBrands(tblRows0, brand[Solo])

-----------------------------------------------------------------------------
(* Properties of a mapping pass, under SpecMap.                            *)

\* C2: in a mapping pass, whatever the source header row (duplicates included),
\* the output headers and the rules, no source column index is the resolved
\* source of two output headers, be it by a direct match, by COALESCE_EXACT or
\* by COALESCE_STARTS_WITH.
C2_NoIndexTwice ==
    \A i, j \in 1..Len(mappings) :
        (i # j /\ mappings[i].source_idx # NoIndex)
        => mappings[i].source_idx # mappings[j].source_idx

\* The pass is over: two output headers resolved to source columns, one of
\* them through a rule, from a source row where two columns have the same
\* normalized header.
C2_Witness ==
    /\ mpc = "done"
    /\ \E i, j \in 1..Len(mappings) :
          /\ i # j
          /\ mappings[i].source_idx # NoIndex
          /\ mappings[j].source_idx # NoIndex
          /\ mappings[j].rule \in {"COALESCE_EXACT", "COALESCE_STARTS_WITH"}
    /\ \E a, b \in 1..Len(srcHeaders) :
          a # b /\ normalize_header(srcHeaders[a]) = normalize_header(srcHeaders[b])

-----------------------------------------------------------------------------
(* Properties of delete_brand_data.                                        *)

\* C11: delete_brand_data never raises.  A step of the delete either is a retry
\* (one more query, of at most max_retries in all, the table untouched) or
\* returns and takes the upload on to the header check and the insert: with the
\* number of rows deleted when the DELETE ran, with 0 and the table untouched
\* when the table was not found (no retry), when the rate limit was met at every
\* attempt, or on any other error (no retry).
C11_DeleteNeverRaises ==
    /\ [](\A c \in Callers : pc[c] = "del" => attempt[c] < DeleteMaxRetries)
    /\ [][\A c \in Callers :
            (pc[c] = "del" /\ pc'[c] # "del")
            => /\ pc'[c] = "hdr"
               /\ result'[c] = result[c]
               /\ delReturn'[c].via \in {"deleted", "not_found", "exhausted", "error"}
               /\ delReturn'[c].via # "deleted"
                  => (delReturn'[c].rows = 0 /\ tblRows' = tblRows)
               /\ delReturn'[c].via \in {"not_found", "error"}
                  => attempt[c] \in 0..(DeleteMaxRetries - 1)
               /\ delReturn'[c].via = "exhausted"
                  => attempt[c] = DeleteMaxRetries - 1]_vars
    /\ [][\A c \in Callers :
            (pc[c] = "del" /\ pc'[c] = "del" /\ attempt'[c] # attempt[c])
            => /\ attempt'[c] = attempt[c] + 1
               /\ tblRows' = tblRows
               /\ delReturn'[c] = delReturn[c]]_vars

\* The upload is at the insert after a delete that met the rate limit at each
\* of its max_retries queries; the brand's earlier rows are still in the table.
C11_Witness ==
    /\ pc[Solo] = "ins"
    /\ delReturn[Solo].via = "exhausted"
    /\ delReturn[Solo].rows = 0
    /\ BagCardinality(RowsOf(tblRows, brand[Solo])) > 0

\* The DELETE of caller c ran in this step.
Deletes(c) == pc[c] = "del" /\ delReturn'[c].via = "deleted"

\* C12: a delete_brand_data(B, T) whose DELETE ran leaves in T no row of brand
\* B, leaves every row of another brand and the sentinel header row as many
\* times as it was there, adds no row, and returns the number of rows of B
\* there were; run again at once, it removes nothing more.
C12_DeleteExactlyBrand ==
    [][\A c \in Callers :
          Deletes(c)
          => /\ \A r \in DOMAIN tblRows' : r[BrandCol] # brand[c]
             /\ \A r \in DOMAIN tblRows :
                   r[BrandCol] # brand[c]
                   => (r \in DOMAIN tblRows' /\ tblRows'[r] = tblRows[r])
             /\ DOMAIN tblRows' \subseteq DOMAIN tblRows
             /\ delReturn'[c].rows = BagCardinality(tblRows) - BagCardinality(tblRows')
             /\ RowsNotOf(tblRows', brand[c]) = tblRows']_vars

\* A delete for brand GS has just removed the row of GS from a table that also
\* holds the sentinel header row and a row of another brand.
C12_Witness ==
    /\ pc[Solo] = "hdr"
    /\ delReturn[Solo].via = "deleted"
    /\ delReturn[Solo].rows = 1
    /\ BagCardinality(RowsOf(tblRows, HeaderMarker)) = 1
    /\ BagCardinality(RowsOf(tblRows, "ZZ")) = 1
    /\ BagCardinality(RowsOf(tblRows0, brand[Solo])) = 1

-----------------------------------------------------------------------------
(* Properties of the sentinel header row.                                  *)

\* Number of sentinel header rows in the table.
Sentinels == BagCardinality(RowsOf(tblRows, HeaderMarker))

\* C13: through any sequence of uploads one after the other into one table,
\* whatever the existence query answers, the table never holds more than one
\* sentinel header row.
C13_OneSentinel == Sentinels <= 1

\* The callers whose upload has written its batch with a sentinel header row.
WroteSentinel ==
    {c \in Callers : /\ off[c] > 0
                     /\ rowsToInsert[c] # <<>>
                     /\ rowsToInsert[c][1][BrandCol] = HeaderMarker}

\* C14: when the uploads of the callers run concurrently as first imports into
\* a table that did not exist, under every interleaving the table holds at
\* most one sentinel header row for each upload that has put one in (its one
\* existence check said none was there), so at most as many as there are
\* callers.
C14_SentinelsBounded ==
    ~tblExists0
    => /\ Sentinels <= Cardinality(WroteSentinel)
       /\ Sentinels <= Cardinality(Callers)
       /\ \A c \in Callers :
             Cardinality({k \in 1..Len(rowsToInsert[c]) :
                            rowsToInsert[c][k][BrandCol] = HeaderMarker}) <= 1

\* Two first imports into a new table both found no sentinel and both wrote
\* one: the table holds two.
C14_Witness ==
    /\ ~tblExists0
    /\ env = {}
    /\ \A c \in Callers : pc[c] = "done" /\ result[c].success
    /\ Sentinels = 2

\* C15: the sentinel row an upload builds has the marker "_header_" in the
\* brand-code field and, in data column i, the text of header i as it stood in
\* the source file (source_headers), not the cleaned or mapped header name.
C15_SentinelOriginalText ==
    \A c \in Callers :
        (rowsToInsert[c] # <<>> /\ rowsToInsert[c][1][BrandCol] = HeaderMarker)
        => \A i \in 1..Len(file[c].source_headers) :
              /\ get_column_name(i - 1) \in DOMAIN rowsToInsert[c][1]
              /\ rowsToInsert[c][1][get_column_name(i - 1)]
                    = file[c].source_headers[i]

-----------------------------------------------------------------------------
(* Properties of concurrent uploads, under SpecConcurrent.                 *)

\* C16: when two uploads find the dataset missing and both go on to create it,
\* with a warehouse that answers from its current state, the Conflict the
\* second creation meets is recovered inside the upload: no upload returns a
\* failure that reports the Conflict.
C16_DatasetRaceRecovered ==
    env = {}
    => \A c \in Callers :
          (pc[c] = "done" /\ op[c] = "upload")
          => result[c].info.error # "Conflict"

\* Both uploads are over, for two brands, each after a DELETE that ran.
BothReplaced ==
    /\ tblExists0
    /\ is_snapshot(runCategory)
    /\ env \subseteq {"rate_limit"}
    /\ brand["c1"] # brand["c2"]
    /\ \A c \in Callers :
          /\ pc[c] = "done"
          /\ op[c] = "upload"
          /\ delReturn[c].via = "deleted"

\* C17: two snapshot uploads for two different brands into one existing table,
\* run concurrently, with rate-limit answers to their deletes short of the
\* retry bound: under every interleaving, when both are over, the table's rows
\* of each brand are exactly the data rows of that brand's upload, both uploads
\* report success, and the rows of any third brand are as they were.
C17_BrandsDoNotInterfere ==
    BothReplaced
    => /\ \A c \in Callers :
             /\ RowsOf(tblRows, brand[c])
                   = SeqToBag(data_rows(file[c], brand[c]))
             /\ result[c].success
       /\ RowsOf(tblRows, "ZZ") = RowsOf(tblRows0, "ZZ")

\* Both uploads are over with different files, the warehouse may have refused
\* deletes for its concurrency limit, and one upload replaced a row its brand
\* had in the table before.
C17_Witness ==
    /\ BothReplaced
    /\ env = {"rate_limit"}
    /\ file["c1"] # file["c2"]
    /\ \E c \in Callers : delReturn[c].rows = 1
    /\ BagCardinality(RowsOf(tblRows0, "ZZ")) = 1

-----------------------------------------------------------------------------
(* Snapshot and append categories, under SpecRepeat.                       *)

\* The category name contains one of the snapshot markers.
NameHasMarker(name) ==
    \E marker \in {snapshot_categories[i] : i \in DOMAIN snapshot_categories} :
        IsSubstring(marker, name)

\* C18: an upload goes to the delete exactly when its category's name contains
\* a snapshot marker, whatever its rows.  For an append category no delete is
\* issued: no step removes a row from the table, and a successful upload run a
\* second time with the same file and brand adds its data rows a second time.
C18_DeleteByCategoryName ==
    /\ [][\A c \in Callers :
            (pc[c] \in {"et_lookup", "et_update", "et_create", "et_final"} /\
             pc'[c] \in {"del", "hdr"} /\ op[c] = "upload")
            => (pc'[c] = "del" <=> NameHasMarker(file[c].category.name))]_vars
    /\ [][~NameHasMarker(runCategory.name)
          => /\ tblRows \sqsubseteq tblRows'
             /\ \A c \in Callers : pc'[c] # "del" /\ delReturn'[c].via = "none"]_vars
    /\ [](/\ ~NameHasMarker(runCategory.name)
          /\ Len(runs) = 2
          /\ pc[Solo] = "done"
          /\ result[Solo].success
          /\ runs[1].success
          /\ runs[1].file = runs[2].file
          /\ runs[1].brand = runs[2].brand
          => LET rows == SeqToBag(data_rows(file[Solo], brand[Solo]))
             IN  RowsOf(tblRows, brand[Solo])
                    = RowsOf(tblRows0, brand[Solo]) (+) rows (+) rows)

\* An append category: the same file was uploaded twice for brand GS with
\* success, into a table that held a row of GS, and all of them are there.
C18_Witness ==
    /\ ~NameHasMarker(runCategory.name)
    /\ Len(runs) = 2
    /\ pc[Solo] = "done"
    /\ result[Solo].success
    /\ runs[1].success
    /\ runs[1].file = runs[2].file
    /\ runs[1].brand = runs[2].brand
    /\ BagCardinality(RowsOf(tblRows0, brand[Solo])) = 1
    /\ BagCardinality(RowsOf(tblRows, brand[Solo]))
          = 1 + 2 * Len(file[Solo].rows)


\* The mapping that decides the value of its header in an output row: the
\* last one of that header.
Decides(i) ==
    \A j \in 1..Len(mappings) : mappings[j].header = mappings[i].header => j <= i

\* No source column and no summing rule: no direct match, and no rule or a
\* COALESCE rule that found no unclaimed column.
Unmatched(mapping) ==
    /\ mapping.source_idx = NoIndex
    /\ mapping.rule \in {"None", "COALESCE_EXACT", "COALESCE_STARTS_WITH"}

\* C19: map_file does not raise on an output header without a source column:
\* in every output row such a header holds the empty text, and so does a
\* header whose resolved source index lies beyond the end of a short data row.
C19_UnmatchedIsEmpty ==
    /\ mpc # "raised"
    /\ \A r \in 1..Len(outRows) : \A i \in 1..Len(mappings) :
          ( /\ Decides(i)
            /\ \/ Unmatched(mappings[i])
               \/ mappings[i].source_idx >= Len(srcRows[r]) )
          => /\ mappings[i].header \in DOMAIN outRows[r]
             /\ outRows[r][mappings[i].header] = <<>>

\* map_file returned rows made from a short row and a full one: one header
\* has no source column, another resolved to the column the short row lacks
\* and holds text in the full row.
C19_Witness ==
    /\ mpc = "returned"
    /\ Len(outRows) = 2
    /\ \E i, j \in 1..Len(mappings) :
          /\ Decides(i) /\ Decides(j)
          /\ Unmatched(mappings[i])
          /\ mappings[j].source_idx # NoIndex
          /\ mappings[j].source_idx >= Len(srcRows[1])
          /\ outRows[1][mappings[j].header] = <<>>
          /\ outRows[2][mappings[j].header] # <<>>


\* The name parse_file gives source header i before making names unique.
PassThroughName(i) ==
    IF clean_header(srcHeaders[i]) = <<>> THEN ColumnName
    ELSE clean_header(srcHeaders[i])

\* The ParsedFile is the pass-through of the source: one output header per
\* source header, in order, named after it, and one row per source row whose
\* value under a header that occurs once is the cell of that column, or the
\* empty text where the row is too short.
IsPassThrough(pf) ==
    /\ Len(pf.headers) = Len(srcHeaders)
    /\ \A i \in 1..Len(srcHeaders) : StartsWith(pf.headers[i], PassThroughName(i))
    /\ pf.source_headers = srcHeaders
    /\ Len(pf.rows) = Len(srcRows)
    /\ \A r \in 1..Len(srcRows) : \A i \in 1..Len(srcHeaders) :
          ( /\ \A j \in 1..Len(srcHeaders) : srcHeaders[j] = srcHeaders[i] => j = i
            /\ \A j \in 1..Len(srcHeaders) : pf.headers[j] = pf.headers[i] => j = i )
          => pf.rows[r][pf.headers[i]] =
                IF i <= Len(srcRows[r]) THEN parse_cell_value(srcRows[r][i])
                ELSE <<>>

\* C20: with a canonical schema configured, an exception of the mapping engine
\* does not fail parse_file: the next step returns the pass-through of the
\* source with column_mapped = False; and whenever parse_file returns,
\* column_mapped is True exactly when map_file had returned.
C20_MappingFailureFallsBack ==
    [][ /\ (mpc \in {"no_mapper", "raised", "sum_raised"} /\ outHeaders # <<>>)
            => /\ mpc' = "parsed"
               /\ parsed'.column_mapped = FALSE
               /\ IsPassThrough(parsed')
        /\ mpc' = "parsed"
            => (parsed'.column_mapped <=> mpc = "returned") ]_vars

\* parse_file returned the pass-through of two rows, the first one short,
\* after the mapping engine had raised.
C20_Witness ==
    /\ mpc = "parsed"
    /\ outHeaders # <<>>
    /\ mappings = <<>>
    /\ parsed.column_mapped = FALSE
    /\ Len(parsed.rows) = 2
    /\ Len(parsed.headers) = 3
    /\ \E h \in DOMAIN parsed.rows[2] : parsed.rows[2][h] # <<>>


-----------------------------------------------------------------------------
(* Properties of the ParsedFile, under SpecRaw and SpecParse.              *)

\* C21: the header list parse_file returns holds no name twice, whatever the
\* source headers: a suffixed name collides with no other final header.
C21_FinalHeadersDistinct ==
    mpc = "parsed"
    => \A i, j \in 1..Len(parsed.headers) :
          parsed.headers[i] = parsed.headers[j] => i = j

\* The keys of a final row in the order the dict holds them: each header at
\* its first insertion.
RowKeys(headers) ==
    LET First(i) == \A j \in 1..(i - 1) : headers[j] # headers[i]
        firsts == {i \in 1..Len(headers) : First(i)}
        Nth(k) == CHOOSE i \in firsts :
                     Cardinality({j \in firsts : j < i}) = k - 1
    IN  [k \in 1..Cardinality(firsts) |-> headers[Nth(k)]]

\* C22: every row of a parse result has one entry for each final header and
\* no other, in the order of the header list.
C22_RowsHaveHeaderSet ==
    mpc = "parsed"
    => \A r \in 1..Len(parsed.rows) :
          /\ DOMAIN parsed.rows[r] = {parsed.headers[i] : i \in 1..Len(parsed.headers)}
          /\ Cardinality(DOMAIN parsed.rows[r]) = Len(parsed.headers)
          /\ RowKeys(parsed.headers) = parsed.headers


-----------------------------------------------------------------------------
(* Properties of parse_number, under SpecNumber.                           *)

\* A text of digits, '.' and ',' only.
IsSeparatorText(v) ==
    /\ v # PyNone /\ v # <<>>
    /\ \A i \in 1..Len(v) : IsDigit(v[i]) \/ v[i] \in {".", ","}

\* The '.' stands after every ','.
DotTrails(str) ==
    \A i, j \in 1..Len(str) : (str[i] = "." /\ str[j] = ",") => j < i

\* The standard text of a value under the separator convention: dot-heavy
\* first (dots are thousands, the comma is the decimal sign), then
\* comma-heavy (commas are thousands, a trailing dot is the decimal sign),
\* then a single comma: thousands before exactly three digits, else decimal.
ByConvention(str) ==
    LET dots == Count(str, ".")
        commas == Count(str, ",")
    IN  IF dots > 1 \/ (dots = 1 /\ commas = 1 /\ ~DotTrails(str))
        THEN Replace(Remove(str, "."), ",", ".")
        ELSE IF commas > 1 /\ dots = 1 /\ DotTrails(str)
        THEN Remove(str, ",")
        ELSE IF commas = 1 /\ dots = 0
        THEN IF Len(str) - IndexOf(str, ",") = 3 THEN Remove(str, ",")
             ELSE Replace(str, ",", ".")
        ELSE str

\* C23: parse_number resolves the separators by the convention: a text of
\* digits and separators parses to the number its standard text denotes, so
\* "1.234.567,89" and "1,234,567.89" both give 1234567.89 and "1,234" 1234.
C23_SeparatorConvention ==
    (npc \in {"returned", "raised"} /\ IsSeparatorText(numArg))
    => /\ number = Converted(ByConvention(numArg), FALSE)
       /\ numArg \in {T_DotThousands, T_CommaThousands}
            => number = Finite(FALSE, 123456789, 2)
       /\ numArg = <<"1", ",", "2", "3", "4">> => number = Finite(FALSE, 1234, 0)

\* C24: parse_number raises for no argument; None, blank text and the tokens
\* of a missing value give null, and so does every text that denotes no
\* finite number.
C24_NeverRaises ==
    npc \in {"returned", "raised"}
    => /\ npc = "returned"
       /\ number.kind \in {"null", "number"}
       /\ (numArg = PyNone \/ Strip(numArg) = <<>> \/ Strip(numArg) \in NullTokens)
            => number = NumNull
       /\ numArg \in {<<"N", "a", "N">>, <<"I", "n", "f", "i", "n", "i", "t", "y">>, <<"-", "i", "n", "f">>, <<"a", "b", "c">>}
            => number = NumNull


-----------------------------------------------------------------------------
(* Properties of SUM_STARTS_WITH, under SpecSum.                           *)

\* The columns of a row that contribute a number to the sum of the prefix
\* Qty: the header starts with the prefix and the cell is neither None, blank,
\* a token of a missing value, nor text that denotes no number.
Contributing(source_row) ==
    {i \in 1..Len(srcHeaders) :
        /\ StartsWith(normalize_header(srcHeaders[i]), normalize_header(H_Qty))
        /\ i <= Len(source_row)
        /\ source_row[i] # PyNone
        /\ Strip(source_row[i]) # <<>>
        /\ Strip(source_row[i]) \notin NotANumber
        /\ FloatOf(Unseparated(Strip(source_row[i]))).kind = "finite"}

\* C25: the value of a SUM_STARTS_WITH header is the empty text exactly when
\* no matching cell contributed a number, the other cells being skipped; a
\* whole total has no decimal part, and cells "10" and "-" under Qty A and
\* Qty B give "10".
C25_SumOfContributions ==
    /\ mpc # "sum_raised"
    /\ \A r \in 1..Len(outRows) :
          LET v == outRows[r][H_Total]
          IN  /\ v = <<>> <=> Contributing(srcRows[r]) = {}
              /\ Count(v, ".") > 0 => v[Len(v)] # "0"
              /\ ( /\ srcHeaders = <<H_Qty_A, H_Qty_B>>
                   /\ srcRows[r] = <<<<"1", "0">>, <<"-">>>> )
                 => v = <<"1", "0">>


-----------------------------------------------------------------------------
(* Properties of dynamic header detection, under SpecDetect.               *)

\* The numbers detected in the source headers, and the MaxPairs smallest.
DetectedNumbers ==
    {Detected(srcHeaders[i]).num :
        i \in {j \in 1..Len(srcHeaders) :
                  Detected(srcHeaders[j]).kind \in {"name", "image"}}}
SmallestNumbers ==
    {n \in DetectedNumbers : Cardinality({m \in DetectedNumbers : m < n}) < MaxPairs}

\* What detect_dynamic_headers returns for any header row: source headers
\* only; the size-guide headers first, as many as the source has, in source
\* order; then numbered headers by ascending number, the name before the
\* image of a number, one of each at most; every one of the MaxPairs smallest
\* numbers with its name if it has one and its image if it has one, also when
\* it has only one of them; no other number.
DetectedInOrder ==
    mpc = "map"
    => /\ \A k \in 1..Len(dynamic) :
             /\ \E i \in 1..Len(srcHeaders) : srcHeaders[i] = dynamic[k]
             /\ Detected(dynamic[k]).kind \in {"special", "name", "image"}
       /\ LET IsSpecial(h) == Detected(h).kind = "special"
          IN  SelectSeq(dynamic, IsSpecial) = SelectSeq(srcHeaders, IsSpecial)
       /\ \A k, l \in 1..Len(dynamic) :
             k < l =>
                LET a == Detected(dynamic[k])
                    b == Detected(dynamic[l])
                IN  /\ b.kind = "special" => a.kind = "special"
                    /\ (a.kind # "special" /\ b.kind # "special")
                         => \/ a.num < b.num
                            \/ (a.num = b.num /\ a.kind = "name" /\ b.kind = "image")
       /\ \A n \in DetectedNumbers : \A kind \in {"name", "image"} :
             (\E k \in 1..Len(dynamic) :
                 Detected(dynamic[k]) = [kind |-> kind, num |-> n])
             <=> /\ n \in SmallestNumbers
                 /\ \E i \in 1..Len(srcHeaders) :
                       Detected(srcHeaders[i]) = [kind |-> kind, num |-> n]

\* C26 as stated: the order above, and the headers "Name 2", "Image 1",
\* "Size Guide Photo", "Name 1" yield "Size Guide Photo", "Name 1", "Image 1",
\* "Name 2".
C26_Stated ==
    /\ DetectedInOrder
    /\ (mpc = "map" /\ srcHeaders = <<H_Name_2, H_Image_1, H_Size_Guide, H_Name_1>>)
         => dynamic = <<H_Size_Guide, H_Name_1, H_Image_1, H_Name_2>>

\* C26, amended: the order above for the header patterns the function knows
\* ("Nama Variasi N" / "Foto Variasi N", "Option N Name" / "Option N Image",
\* and the size-guide header): "Option 2 Name", "Option 1 Image",
\* "Size Guide Photo", "Option 1 Name" yield "Size Guide Photo",
\* "Option 1 Name", "Option 1 Image", "Option 2 Name"; "Name N" and "Image N"
\* are no dynamic headers.
C26_DynamicOrder ==
    /\ DetectedInOrder
    /\ ( /\ mpc = "map"
         /\ srcHeaders = <<H_Option_2_Name, H_Option_1_Image, H_Size_Guide,
                           H_Option_1_Name>> )
         => dynamic = <<H_Size_Guide, H_Option_1_Name, H_Option_1_Image,
                        H_Option_2_Name>>
    /\ \A k \in 1..Len(dynamic) : dynamic[k] \notin {H_Name_1, H_Name_2, H_Image_1}

\* Detection returned the special header and a name-image pair of number 1
\* before a name of number 2, from a row that lists them in another order.
C26_Witness ==
    /\ mpc = "map"
    /\ srcHeaders = <<H_Option_2_Name, H_Option_1_Image, H_Size_Guide, H_Option_1_Name>>
    /\ Len(dynamic) = 4

\* Detection ran on a row with more numbers than MaxPairs and returned
\* MaxPairs headers.
C26_WitnessCap ==
    /\ mpc = "map"
    /\ srcHeaders = ManyNumbers
    /\ Len(dynamic) = MaxPairs


-----------------------------------------------------------------------------
(* Properties of map_file with dynamic detection, under SpecDynamic.       *)

NormalizedSet(headers) == {normalize_header(headers[i]) : i \in 1..Len(headers)}

\* The output headers are the standard headers in their order, followed by
\* the detected dynamic headers whose normalized name is not among them, in
\* detection order, each once.
StandardThenDynamic ==
    mpc \notin {"off", "begin"}
    => /\ IsPrefix(standard_headers, outHeaders)
       /\ LET NotStandard(h) ==
                  normalize_header(h) \notin NormalizedSet(standard_headers)
          IN  SubSeq(outHeaders, Len(standard_headers) + 1, Len(outHeaders))
                 = SelectSeq(dynamic, NotStandard)
       /\ \A k, l \in (Len(standard_headers) + 1)..Len(outHeaders) :
             normalize_header(outHeaders[k]) = normalize_header(outHeaders[l])
             => k = l

\* Source headers SKU, Nama Variasi 1, Foto Variasi 1 with the standard header
\* SKU give the output headers SKU, Nama Variasi 1, Foto Variasi 1, and SKU
\* holds the trimmed source cell in each row.
ScenarioSKU ==
    ( /\ mpc \notin {"off", "begin"}
      /\ srcHeaders = <<H_SKU, H_Nama_1, H_Foto_1>>
      /\ standard_headers = <<H_SKU>> )
    => /\ outHeaders = <<H_SKU, H_Nama_1, H_Foto_1>>
       /\ \A r \in 1..Len(outRows) : outRows[r][H_SKU] = Strip(srcRows[r][1])

\* Appended header k resolved by direct match to a source column of its name.
DirectToOwnColumn(k) ==
    /\ mappings[k].source_idx # NoIndex
    /\ mappings[k].rule = "None"
    /\ normalize_header(srcHeaders[mappings[k].source_idx + 1])
          = normalize_header(outHeaders[k])

\* A header before position k took, through its rule, a source column of the
\* name of header k.
ClaimedByRule(k) ==
    \E j \in 1..(k - 1) :
        /\ mappings[j].source_idx # NoIndex
        /\ mappings[j].rule # "None"
        /\ normalize_header(srcHeaders[mappings[j].source_idx + 1])
              = normalize_header(outHeaders[k])

\* C27 as stated: the output headers are the standard headers followed by the
\* dynamic headers not yet present, and every appended dynamic header
\* resolves by direct match to its own source column.
C27_Stated ==
    /\ StandardThenDynamic
    /\ ScenarioSKU
    /\ mpc \in {"done", "returned"}
         => \A k \in (Len(standard_headers) + 1)..Len(outHeaders) :
               DirectToOwnColumn(k)

\* C27, amended: the same, but an appended dynamic header resolves by direct
\* match to its own source column unless the rule of an earlier header has
\* claimed a column of that name; then it may be left without a source column.
C27_DynamicAppended ==
    /\ StandardThenDynamic
    /\ ScenarioSKU
    /\ mpc \in {"done", "returned"}
         => \A k \in (Len(standard_headers) + 1)..Len(outHeaders) :
               /\ DirectToOwnColumn(k) \/ ClaimedByRule(k)
               /\ mappings[k].source_idx = NoIndex \/ DirectToOwnColumn(k)

\* map_file returned for source headers SKU, Nama Variasi 1, Foto Variasi 1
\* and the standard header SKU: two dynamic headers were appended and hold
\* their own columns.
C27_Witness ==
    /\ mpc = "returned"
    /\ srcHeaders = <<H_SKU, H_Nama_1, H_Foto_1>>
    /\ standard_headers = <<H_SKU>>
    /\ Len(outHeaders) = 3
    /\ Len(outRows) = 1
    /\ DirectToOwnColumn(2) /\ DirectToOwnColumn(3)


-----------------------------------------------------------------------------
(* The steps of ensure_table_exists as a state machine, under              *)
(* SpecProvision.                                                          *)

\* Caller c enters the creation of the table in this step.
CreateAttempted(c) == pc[c] # "et_create" /\ pc'[c] = "et_create"

\* The creations of one call are bounded: a creation is attempted only while
\* fewer than max_retries Conflicts were met, and the final lookup comes
\* exactly when max_retries Conflicts were met.
CreatesBounded ==
    \A c \in Callers :
        /\ attempt[c] <= EnsureMaxRetries
        /\ pc[c] = "et_create" => attempt[c] < EnsureMaxRetries
        /\ pc[c] \in {"et_lookup", "et_update"} => attempt[c] < EnsureMaxRetries
        /\ pc[c] = "et_final" <=> (op[c] = "ensure_table_exists"
                                     /\ pc[c] # "done"
                                     /\ attempt[c] = EnsureMaxRetries)

\* A Conflict sends the call back to a lookup: the lookup of the next attempt,
\* or the final one after max_retries Conflicts.  The final lookup ends the
\* call with what it gave: the table, or its own exception.
ConflictLooksUpAgain ==
    \A c \in Callers :
        /\ (pc[c] = "et_create" /\ pc'[c] # "done" /\ pc'[c] # "et_create")
             => /\ attempt'[c] = attempt[c] + 1
                /\ pc'[c] = IF attempt'[c] < EnsureMaxRetries
                            THEN "et_lookup" ELSE "et_final"
        /\ (pc[c] = "et_final" /\ pc'[c] # "et_final")
             => /\ pc'[c] = "done"
                /\ \/ result'[c] = Returned(TRUE, NoInfo, tblSchema)
                   \/ result'[c].kind = "raise"

\* No call ends with the Conflict of a creation.
NoConflictRaised ==
    \A c \in Callers :
        (pc[c] = "done" /\ result[c].kind = "raise") => result[c].exc # "Conflict"

\* C28 as stated: a creation is attempted only directly after a lookup of the
\* same attempt answered not-found; at most max_retries creations; after
\* max_retries Conflicts one more lookup, whose result ends the call, and no
\* Conflict is raised.
C28_Stated ==
    /\ [](CreatesBounded /\ NoConflictRaised)
    /\ [][ConflictLooksUpAgain]_vars
    /\ [][\A c \in Callers : CreateAttempted(c) => pc[c] = "et_lookup"]_vars

\* C28, amended: a creation is attempted only directly after the lookup or
\* the schema update of the same attempt answered not-found; at most
\* max_retries creations; after max_retries Conflicts one more lookup, whose
\* result ends the call, and no Conflict is raised.
C28_EnsureStateMachine ==
    /\ [](CreatesBounded /\ NoConflictRaised)
    /\ [][ConflictLooksUpAgain]_vars
    /\ [][\A c \in Callers :
             CreateAttempted(c)
             => /\ pc[c] \in {"et_lookup", "et_update"}
                /\ attempt'[c] = attempt[c]]_vars

\* A call met max_retries Conflicts and returned the table of its final lookup.
C28_Witness ==
    \E c \in Callers :
        /\ op[c] = "ensure_table_exists"
        /\ pc[c] = "done"
        /\ attempt[c] = EnsureMaxRetries
        /\ result[c] = Returned(TRUE, NoInfo, tblSchema)


-----------------------------------------------------------------------------
(* Direct matches of _calculate_mapping, under SpecMap.                    *)

\* The 0-based source columns whose normalized name is `key`.
ColumnsNamed(key) ==
    {j \in 0..(Len(srcHeaders) - 1) : normalize_header(srcHeaders[j + 1]) = key}

\* The source columns the headers before position i hold.
ClaimedBefore(i) ==
    {mappings[h].source_idx : h \in 1..(i - 1)} \ {NoIndex}

\* The k-th smallest member of a set of numbers.
Kth(S, k) == CHOOSE j \in S : Cardinality({m \in S : m < j}) = k - 1

\* Header i is the k-th output header of its normalized name.
RankOf(i) ==
    Cardinality({h \in 1..i : normalize_header(outHeaders[h])
                                 = normalize_header(outHeaders[i])})

\* The headers are resolved in the order of the output headers.
ResolvedInOrder ==
    /\ Len(mappings) <= Len(outHeaders)
    /\ \A i \in 1..Len(mappings) : mappings[i].header = outHeaders[i]

\* A header with an unclaimed source column of its normalized name holds the
\* leftmost such column, and its rule was not consulted.
LeftmostUnclaimed ==
    \A i \in 1..Len(mappings) :
        LET free == ColumnsNamed(normalize_header(outHeaders[i]))
                       \ ClaimedBefore(i)
        IN  free # {} => /\ mappings[i].source_idx = Kth(free, 1)
                         /\ mappings[i].rule = "None"

\* C29 as stated: headers are resolved in order; a header with an unclaimed
\* column of its normalized name gets the leftmost such column without its
\* rule being consulted; so the k-th header of a normalized name receives the
\* k-th leftmost source column of that name.
C29_Stated ==
    /\ ResolvedInOrder
    /\ LeftmostUnclaimed
    /\ \A i \in 1..Len(mappings) :
          LET named == ColumnsNamed(normalize_header(outHeaders[i]))
          IN  RankOf(i) <= Cardinality(named)
              => mappings[i].source_idx = Kth(named, RankOf(i))

\* An earlier header of another name holds, through its rule, a column of the
\* name of header i.
NameTakenByRule(i) ==
    \E h \in 1..(i - 1) :
        /\ normalize_header(outHeaders[h]) # normalize_header(outHeaders[i])
        /\ mappings[h].source_idx
              \in ColumnsNamed(normalize_header(outHeaders[i]))

\* C29, amended: headers are resolved in order; a header with an unclaimed
\* column of its normalized name gets the leftmost such column without its
\* rule being consulted; the k-th header of a normalized name receives the
\* k-th leftmost source column of that name unless the rule of an earlier
\* header of another name has claimed a column of that name.
C29_DirectMatchLeftmost ==
    /\ ResolvedInOrder
    /\ LeftmostUnclaimed
    /\ \A i \in 1..Len(mappings) :
          LET named == ColumnsNamed(normalize_header(outHeaders[i]))
          IN  (RankOf(i) <= Cardinality(named) /\ ~NameTakenByRule(i))
              => mappings[i].source_idx = Kth(named, RankOf(i))

\* The second header of a name holds the second column of that name, although
\* it has a rule.
C29_Witness ==
    /\ mpc = "done"
    /\ Len(mappings) = 2
    /\ RankOf(2) = 2
    /\ outHeaders[2] \in DOMAIN rules
    /\ Cardinality(ColumnsNamed(normalize_header(outHeaders[2]))) >= 2
    /\ mappings[2].source_idx
          = Kth(ColumnsNamed(normalize_header(outHeaders[2])), 2)
    /\ mappings[2].source_idx # mappings[1].source_idx
    /\ mappings[2].rule = "None"


-----------------------------------------------------------------------------
(* The COALESCE rules of _calculate_mapping, under SpecCoalesce.           *)

\* Source column j (0-based) matches replacement `alias` of a rule of `action`.
AliasMatches(action, alias, j) ==
    LET name == normalize_header(srcHeaders[j + 1])
    IN  /\ name # <<>>
        /\ IF action = "COALESCE_EXACT"
           THEN name = normalize_header(alias)
           ELSE StartsWith(name, normalize_header(alias))

\* The source columns no header before position i holds.
FreeBefore(i) == (0..(Len(srcHeaders) - 1)) \ ClaimedBefore(i)

\* The replacements (by position) of the rule of header i that match a column
\* still unclaimed when header i is resolved.
LiveAliases(i) ==
    LET rule == rules[outHeaders[i]]
    IN  {a \in 1..Len(rule.replacements) :
            \E j \in FreeBefore(i) :
                AliasMatches(rule.action, rule.replacements[a], j)}

\* The rule of header i was consulted and is a COALESCE rule.
Coalesced(i) ==
    mappings[i].rule \in {"COALESCE_EXACT", "COALESCE_STARTS_WITH"}

\* C30: for a COALESCE_EXACT or COALESCE_STARTS_WITH rule, the earliest
\* replacement with an unclaimed matching column determines the column, a
\* column held by an earlier header is never returned, and no column is
\* returned only when no replacement has an unclaimed match.
C30_EarliestAliasWins ==
    \A i \in 1..Len(mappings) :
        Coalesced(i)
        => LET rule == rules[outHeaders[i]]
               live == LiveAliases(i)
               idx  == mappings[i].source_idx
           IN  /\ idx \notin ClaimedBefore(i)
               /\ (idx = NoIndex) <=> (live = {})
               /\ live # {}
                    => /\ idx \in FreeBefore(i)
                       /\ AliasMatches(rule.action,
                              rule.replacements[Kth(live, 1)], idx)

\* Header i took the column of an earlier replacement although a later
\* replacement matches an unclaimed column further left.
LaterAliasFurtherLeft(i) ==
    /\ Coalesced(i)
    /\ mappings[i].source_idx # NoIndex
    /\ LET rule == rules[outHeaders[i]]
       IN  \E a \in LiveAliases(i) :
              /\ a > Kth(LiveAliases(i), 1)
              /\ \E j \in FreeBefore(i) :
                    /\ j < mappings[i].source_idx
                    /\ AliasMatches(rule.action, rule.replacements[a], j)

\* Both kinds of rule met that case in one pass or another; here the pass has
\* ended and a header holds the column of its earlier replacement.
C30_Witness ==
    /\ mpc = "done"
    /\ \E i \in 1..Len(mappings) : LaterAliasFurtherLeft(i)

C30_WitnessExact ==
    /\ mpc = "done"
    /\ \E i \in 1..Len(mappings) :
          mappings[i].rule = "COALESCE_EXACT" /\ LaterAliasFurtherLeft(i)

C30_WitnessStartsWith ==
    /\ mpc = "done"
    /\ \E i \in 1..Len(mappings) :
          /\ mappings[i].rule = "COALESCE_STARTS_WITH"
          /\ LaterAliasFurtherLeft(i)
          /\ ClaimedBefore(i) # {}


-----------------------------------------------------------------------------
(* SUM_STARTS_WITH and the claiming of columns, under SpecSumShared.       *)

\* The 1-based source columns whose normalized name starts with a pattern.
ColumnsStarting(pattern) ==
    {j \in 1..Len(srcHeaders) :
        StartsWith(normalize_header(srcHeaders[j]), normalize_header(pattern))}

RECURSIVE CellSum(_, _)
CellSum(row, S) ==
    IF S = {} THEN 0
    ELSE LET j == CHOOSE k \in S : TRUE
         IN  NumberOf(row[j]) + CellSum(row, S \ {j})

\* The text a sum over the columns starting with `pattern` gives for a row.
SumText(row, pattern) ==
    IF ColumnsStarting(pattern) = {} THEN <<>>
    ELSE IntToStr(CellSum(row, ColumnsStarting(pattern)))

\* The header resolved in this step fell to a SUM_STARTS_WITH rule.
SumResolved ==
    /\ Len(mappings') = Len(mappings) + 1
    /\ mappings'[Len(mappings')].rule = "SUM_STARTS_WITH"

\* C31: a SUM_STARTS_WITH header never claims a column: resolving it leaves
\* the working header index unchanged and gives it no column, headers after
\* it still get the leftmost unclaimed column of their name, and its value in
\* each row is the sum over all columns of the original index that start with
\* its pattern, those claimed by other headers included.
SumLeavesIndex ==
    SumResolved => /\ working_map' = working_map
                   /\ mappings'[Len(mappings')].source_idx = NoIndex

SumOverOriginalIndex ==
    /\ LeftmostUnclaimed
    /\ \A i \in 1..Len(mappings) :
          mappings[i].rule = "SUM_STARTS_WITH"
          => /\ mappings[i].source_idx = NoIndex
             /\ \A r \in 1..Len(outRows) :
                   outRows[r][outHeaders[i]]
                      = SumText(srcRows[r],
                                rules[outHeaders[i]].replacements[1])

C31_SumNeverClaims ==
    /\ []SumOverOriginalIndex
    /\ [][SumLeavesIndex]_vars

\* The row was mapped; Total summed two columns, one of which another header
\* holds, resolved after Total.
C31_Witness ==
    /\ mpc = "returned"
    /\ Len(outRows) = 1
    /\ Len(mappings) = 2
    /\ mappings[1].rule = "SUM_STARTS_WITH"
    /\ mappings[2].source_idx # NoIndex
    /\ (mappings[2].source_idx + 1) \in ColumnsStarting(H_Qty)
    /\ Cardinality(ColumnsStarting(H_Qty)) = 2
    /\ outRows[1][H_Total] = <<"3">>

\* The same with the other header resolved before Total.
C31_WitnessBefore ==
    /\ mpc = "returned"
    /\ Len(outRows) = 1
    /\ Len(mappings) = 2
    /\ mappings[2].rule = "SUM_STARTS_WITH"
    /\ mappings[1].source_idx # NoIndex
    /\ (mappings[1].source_idx + 1) \in ColumnsStarting(H_Qty)
    /\ Cardinality(ColumnsStarting(H_Qty)) = 2
    /\ outRows[1][H_Total] = <<"3">>


-----------------------------------------------------------------------------
(* The rules made from column_aliases, under SpecAliases.                  *)

\* Source column j (0-based) matches a configured alias: by prefix for an
\* alias with a trailing "*", by equality of normalized names otherwise.
ConfiguredAliasMatches(a, j) ==
    LET name == normalize_header(srcHeaders[j + 1])
    IN  IF EndsWithStar(a)
        THEN StartsWith(name, normalize_header(SubSeq(a, 1, Len(a) - 1)))
        ELSE name = normalize_header(a)

\* Header i had no unclaimed source column of its own name when resolved.
NoDirectMatch(i) ==
    ColumnsNamed(normalize_header(outHeaders[i])) \ ClaimedBefore(i) = {}

\* The rule in force for a header covers configured alias a.
RuleCovers(rule, a) ==
    IF EndsWithStar(a)
    THEN /\ rule.action \in {"COALESCE_STARTS_WITH", "SUM_STARTS_WITH"}
         /\ \E r \in 1..Len(rule.replacements) :
               rule.replacements[r] = SubSeq(a, 1, Len(a) - 1)
    ELSE /\ rule.action = "COALESCE_EXACT"
         /\ \E r \in 1..Len(rule.replacements) : rule.replacements[r] = a

\* C32: a canonical header without a direct source match has exactly one
\* effective rule, and that rule honours every alias configured for the
\* header, wildcard aliases by prefix and the others by equality, also in a
\* list that mixes both: the rule covers every alias, and the header gets a
\* column whenever some alias matches an unclaimed one.
C32_EveryAliasHonoured ==
    mpc \in {"map", "done"}
    => \A i \in 1..Len(mappings) :
          LET h == outHeaders[i]
          IN  (NoDirectMatch(i) /\ h \in DOMAIN column_aliases)
              => /\ h \in DOMAIN rules
                 /\ mappings[i].rule = rules[h].action
                 /\ \A a \in 1..Len(column_aliases[h]) :
                       RuleCovers(rules[h], column_aliases[h][a])
                 /\ ( /\ rules[h].action # "SUM_STARTS_WITH"
                      /\ \E a \in 1..Len(column_aliases[h]), j \in FreeBefore(i) :
                            ConfiguredAliasMatches(column_aliases[h][a], j) )
                    => mappings[i].source_idx # NoIndex

\* C33: the lookup of a header's rule is by normalized name: aliases
\* configured under a name that differs from the canonical header only in
\* letter case or surrounding whitespace give the header its rule, which is
\* applied when the header has no direct match.
C33_RuleLookupNormalized ==
    mpc \in {"map", "done"}
    => \A i \in 1..Len(mappings) :
          \A k \in DOMAIN column_aliases :
              ( /\ NoDirectMatch(i)
                /\ normalize_header(k) = normalize_header(outHeaders[i]) )
              => /\ mappings[i].rule = rules[k].action
                 /\ ( /\ rules[k].action # "SUM_STARTS_WITH"
                      /\ \E a \in 1..Len(column_aliases[k]), j \in FreeBefore(i) :
                            /\ ConfiguredAliasMatches(column_aliases[k][a], j)
                            /\ RuleCovers(rules[k], column_aliases[k][a]) )
                    => mappings[i].source_idx # NoIndex


-----------------------------------------------------------------------------
(* The two numeric readings of a cell, under SpecReading.                  *)

\* Both readings of the cell have ended.
BothRead ==
    /\ mpc \in {"returned", "sum_raised"}
    /\ npc \in {"returned", "raised"}

\* C34: the numeric reading of a cell inside SUM_STARTS_WITH equals
\* parse_number of the cell, for every cell text: a cell parse_number gives
\* no number for adds nothing to the sum, and a cell it gives a number for
\* adds that number.
C34_SameReading ==
    BothRead
    => IF number.kind = "number"
       THEN /\ mpc = "returned"
            /\ outRows[1][H_Total]
                  = FormatTotal(IF number.neg THEN 0 - number.units
                                ELSE number.units, number.scale)
       ELSE IF number.kind = "null"
       THEN mpc = "returned" /\ outRows[1][H_Total] = <<>>
       ELSE mpc = "sum_raised"


-----------------------------------------------------------------------------
(* Reading and filtering in parse_file, under SpecRead.                    *)

\* C35: for every supported format the header list is taken from row
\* header_row of the file and the data rows start at row data_start_row, as
\* the category configures them; a file that has no such header row has no
\* headers.
C35_OffsetsApplied ==
    /\ rpc = "filtered"
         => /\ cfg_header_row < Len(all_rows)
            /\ Len(srcHeaders) = Len(all_rows[cfg_header_row + 1])
            /\ \A i \in 1..Len(srcHeaders) :
                  LET cell == all_rows[cfg_header_row + 1][i]
                  IN  (cell # PyNone /\ Strip(cell) # <<>>)
                      => srcHeaders[i] = Strip(cell)
            /\ raw_rows = RowsFrom(all_rows, cfg_data_start_row)
    /\ (rpc = "returned" /\ fmt # "unreadable")
         => \/ Len(all_rows) <= cfg_header_row
            \/ all_rows[cfg_header_row + 1] = <<>>

\* The rows of raw_rows with a cell that is neither null nor whitespace.
Surviving ==
    LET HasContent(row) ==
            \E i \in 1..Len(row) : row[i] # PyNone /\ Strip(row[i]) # <<>>
    IN  SelectSeq(raw_rows, HasContent)

\* The counters of the ParsedFile that parse_file returns.
total_rows == IF rpc = "returned" THEN 0 ELSE Len(raw_rows)
skipped_rows == IF rpc = "returned" THEN 0 ELSE skipped

\* C36: rows whose cells are all null or whitespace are removed before the
\* mapping and are not in the result; total_rows = skipped_rows + output rows
\* + row-level errors in every result; a result without a surviving data row
\* has no rows and so is not valid.
C36_BlankRowsAndCounters ==
    /\ rpc = "filtered"
         => /\ srcRows = Surviving
            /\ skipped = Len(raw_rows) - Len(Surviving)
    /\ (mpc = "parsed" \/ rpc = "returned")
         => /\ total_rows = skipped_rows + Len(parsed.rows)  \* no row is lost to an error
            /\ Len(parsed.rows) = IF rpc = "returned" THEN 0 ELSE Len(Surviving)
            /\ (rpc = "returned" \/ Surviving = <<>>) => parsed.rows = <<>>
    /\ (mpc = "parsed" /\ parsed.column_mapped)
         => \A r \in 1..Len(parsed.rows) :
               parsed.rows[r] = ParsedFileOf(outHeaders, outRows, "returned").rows[r]

\* A mapped result of a file with a blank row and a row that survived.
C36_Witness ==
    /\ mpc = "parsed"
    /\ parsed.column_mapped
    /\ skipped > 0
    /\ Len(parsed.rows) > 0
    /\ Len(raw_rows) > Len(parsed.rows)


-----------------------------------------------------------------------------
(* The counters of upload's result, under Spec.                            *)

\* upload of caller c has returned a result that carries counters.
HasCounters(c) ==
    /\ op[c] = "upload"
    /\ pc[c] = "done"
    /\ result[c].kind = "return"
    /\ result[c].info.tag = "loaded"

\* The counters of a result: rows_total is the number of rows handed to the
\* insert step, rows_inserted the running total of the accepted chunks and
\* never more than rows_total; success means no row-level error, and then
\* every row handed over, header row included, was counted and is in the table.
CountersOfResult ==
    /\ totalInserted[Solo] <= Min(off[Solo], Len(rowsToInsert[Solo]))
    /\ HasCounters(Solo)
         => LET info == result[Solo].info
            IN  /\ info.rows_total = Len(rowsToInsert[Solo])
                /\ info.rows_inserted = totalInserted[Solo]
                /\ info.rows_inserted <= info.rows_total
                /\ result[Solo].success <=> info.errors = <<>>
                /\ result[Solo].success
                     => /\ info.rows_inserted = info.rows_total
                        /\ SeqToBag(rowsToInsert[Solo]) \sqsubseteq tblRows

\* A chunk is done with: accepted with no row-level error, its size is added
\* to the total and its rows to the table; otherwise the total stays.
ChunkCounted ==
    (pc[Solo] = "ins" /\ off'[Solo] # off[Solo])
    => IF errors'[Solo] = errors[Solo]
       THEN /\ totalInserted'[Solo] = totalInserted[Solo] + Len(Batch(Solo))
            /\ tblRows' = tblRows (+) SeqToBag(Batch(Solo))
       ELSE /\ totalInserted'[Solo] = totalInserted[Solo]
            /\ tblRows' = tblRows

\* C37: in every result of upload that carries counters, rows_inserted <=
\* rows_total, rows_inserted is the sum of the sizes of the chunks accepted
\* with no row-level error, and success implies rows_inserted = rows_total.
C37_ResultCounters ==
    /\ []CountersOfResult
    /\ [][ChunkCounted]_vars

\* upload returned counters of a load where one chunk was accepted and a
\* later one was not.
C37_Witness ==
    /\ HasCounters(Solo)
    /\ ~result[Solo].success
    /\ result[Solo].info.rows_inserted > 0
    /\ result[Solo].info.rows_inserted < result[Solo].info.rows_total

\* upload returned success with every row counted.
C37_WitnessSuccess ==
    /\ HasCounters(Solo)
    /\ result[Solo].success
    /\ result[Solo].info.rows_inserted = Len(rowsToInsert[Solo])
    /\ Len(rowsToInsert[Solo]) > BatchSize


-----------------------------------------------------------------------------
(* upload of a parse result that is not valid, under Spec.                 *)

\* The parse result handed to upload has no category or no data row.
InvalidHandedOver(f) == f.category = NoCategory \/ Len(f.rows) = 0

\* The call that starts upload with such a file ends it in the same step with
\* failure, and leaves dataset, table, schema and rows as they were.
InvalidReturnsAtOnce ==
    (pc[Solo] = "idle" /\ pc'[Solo] # "idle" /\ op'[Solo] = "upload"
       /\ InvalidHandedOver(file'[Solo]))
    => /\ pc'[Solo] = "done"
       /\ result'[Solo].kind = "return"
       /\ ~result'[Solo].success
       /\ result'[Solo].info.error = "Invalid file - no data"
       /\ <<dsExists, tblExists, tblSchema, tblRows>>' =
            <<dsExists, tblExists, tblSchema, tblRows>>

\* Such a call is never at a step that talks to the warehouse, and the table
\* is as it was before the call.
InvalidNeverAtWarehouse ==
    (op[Solo] = "upload" /\ pc[Solo] # "idle" /\ InvalidHandedOver(file[Solo]))
    => /\ pc[Solo] = "done"
       /\ ~result[Solo].success
       /\ tblExists = tblExists0
       /\ tblRows = tblRows0
       /\ rowsToInsert[Solo] = <<>>
       /\ totalInserted[Solo] = 0

\* C38: upload called with a parse result that is not valid returns failure at
\* once and issues no warehouse operation: nothing is created, changed,
\* deleted or inserted.
C38_InvalidFileNoOperation ==
    /\ []InvalidNeverAtWarehouse
    /\ [][InvalidReturnsAtOnce]_vars

\* upload has returned for a file that has rows but no category, while the
\* dataset does not exist.
C38_Witness ==
    /\ op[Solo] = "upload" /\ pc[Solo] = "done"
    /\ file[Solo].category = NoCategory /\ Len(file[Solo].rows) > 0
    /\ result[Solo].info.tag = "invalid"
    /\ ~dsExists

\* upload has returned for a file with a category and no data row.
C38_WitnessNoRows ==
    /\ op[Solo] = "upload" /\ pc[Solo] = "done"
    /\ file[Solo].category # NoCategory /\ Len(file[Solo].rows) = 0
    /\ result[Solo].info.tag = "invalid"


-----------------------------------------------------------------------------
(* The moves of process_file, under SpecProcess.                           *)

ProcessReturned == ppc = "done" /\ run_result.kind # "none"

RunSucceeded == run_result.kind = "result" /\ run_result.success

\* C39: every process_file run on a file outside the special folders requests
\* exactly one move of that file, to archive/ if and only if the run returns
\* success and to failed/ otherwise; a file is never moved to both and never
\* left unmoved, and a file in a special folder is never moved.
C39_ExactlyOneMove ==
    /\ Len(moves) <= 1
    /\ \A k \in 1..Len(moves) : moves[k].source = blob_path
    /\ ProcessReturned
         => IF InSpecialFolder(blob_path)
            THEN moves = <<>>
            ELSE /\ Len(moves) = 1
                 /\ IF RunSucceeded
                    THEN moves[1] = move_to_archive(blob_path)
                    ELSE moves[1] = move_to_failed(blob_path)

\* The same for the files that lie in a folder.
C39_InFolder ==
    /\ Len(moves) <= 1
    /\ \A k \in 1..Len(moves) : moves[k].source = blob_path
    /\ ProcessReturned
         => IF InSpecialFolder(blob_path) \/ Count(blob_path, "/") = 0
            THEN moves = <<>>
            ELSE /\ Len(moves) = 1
                 /\ IF RunSucceeded
                    THEN moves[1] = move_to_archive(blob_path)
                    ELSE moves[1] = move_to_failed(blob_path)

\* A run on a file in a category folder was archived after its brand was
\* detected.
C39_SeenArchived ==
    /\ ProcessReturned /\ RunSucceeded
    /\ blob_path = P_dash_mixed
    /\ moves = <<move_to_archive(P_dash_mixed)>>


-----------------------------------------------------------------------------
(* batch_process_category, under SpecBatch.                                *)

BatchReturned == ppc = "done" /\ run_result.kind = "result"

\* The listed files that parsed with a valid brand code, in listing order.
ParsedEntries == LET Ok(e) == e.outcome = "parsed" IN SelectSeq(parse_log, Ok)

RECURSIVE RowsOfEntries(_)
RowsOfEntries(entries) ==
    IF entries = <<>> THEN <<>>
    ELSE [k \in 1..Head(entries).nrows |->
             [src |-> Head(entries).path, n |-> k, brand |-> Head(entries).brand]]
         \o RowsOfEntries(Tail(entries))

MovesOf(path) == {k \in 1..Len(moves) : moves[k].source = path}

\* The end of a batch in which at least one file parsed.
BatchEnd ==
    (ppc = "done" /\ ParsedEntries # <<>>)
    => /\ run_result.kind = "result"
       /\ deleted_all
       /\ batch_loaded.called
       /\ batch_loaded.rows = RowsOfEntries(ParsedEntries)
       /\ batch_loaded.headers = ParsedEntries[1].headers
       /\ Len(parse_log) = Len(blob_paths)
       /\ \A k \in 1..Len(blob_paths) :
             LET e == parse_log[k]
             IN  /\ e.path = blob_paths[k]
                 /\ Cardinality(MovesOf(e.path)) = 1
                 /\ \A m \in MovesOf(e.path) :
                       moves[m] = IF e.outcome = "parsed" /\ run_result.success
                                  THEN move_to_archive(e.path)
                                  ELSE move_to_failed(e.path)
                 /\ e.outcome # "parsed"
                      => \A r \in 1..Len(batch_loaded.rows) :
                            batch_loaded.rows[r].src # e.path

\* The delete comes before the load, and the parsed files are moved with it.
BatchOrder ==
    /\ (batch_loaded'.called /\ ~batch_loaded.called) => deleted_all
    /\ \A k \in 1..Len(moves') :
          (k > Len(moves) /\ \E e \in 1..Len(parse_log) :
                parse_log[e].path = moves'[k].source
                /\ parse_log[e].outcome = "parsed")
          => batch_loaded'.called

C40_WitnessFailedLoad ==
    /\ BatchReturned /\ ~run_result.success
    /\ Len(ParsedEntries) = 1 /\ Len(parse_log) = 2
    /\ batch_loaded.called

====
